---------------------------- MODULE Spec2Model ----------------------------
(***************************************************************************)
(* A model of xss_experiment_pipeline.py: the execution-detection harness  *)
(* (in-page agent, trigger driver, three-variant render pipeline,          *)
(* classifier), the text heuristics (server_sanitize, detect_vectors) and  *)
(* the metrics aggregator.                                                 *)
(*                                                                         *)
(* Text is a sequence of one-character strings, so that substring tests,   *)
(* lower-casing and the regular expressions of the source are computed on  *)
(* characters, as the source computes them.                                *)
(***************************************************************************)
EXTENDS Integers, Sequences, FiniteSets, TLC

(***************************************************************************)
(* Characters                                                              *)
(***************************************************************************)
LowerLetters ==
  <<"a","b","c","d","e","f","g","h","i","j","k","l","m",
    "n","o","p","q","r","s","t","u","v","w","x","y","z">>

UpperLetters ==
  <<"A","B","C","D","E","F","G","H","I","J","K","L","M",
    "N","O","P","Q","R","S","T","U","V","W","X","Y","Z">>

Digits == {"0","1","2","3","4","5","6","7","8","9"}

\* F applied to a value that is computed once, before F is applied
With(x, F(_)) == CASE x = x -> F(x)

Range(f) == {f[i] : i \in DOMAIN f}

\* the tables of str.lower() and str.upper() on the letters
LowerOf ==
  (("A" :> "a") @@ ("B" :> "b") @@ ("C" :> "c") @@ ("D" :> "d") @@ ("E" :> "e") @@ ("F" :> "f")
   @@ ("G" :> "g") @@ ("H" :> "h") @@ ("I" :> "i") @@ ("J" :> "j") @@ ("K" :> "k") @@ ("L" :> "l")
   @@ ("M" :> "m") @@ ("N" :> "n") @@ ("O" :> "o") @@ ("P" :> "p") @@ ("Q" :> "q") @@ ("R" :> "r")
   @@ ("S" :> "s") @@ ("T" :> "t") @@ ("U" :> "u") @@ ("V" :> "v") @@ ("W" :> "w") @@ ("X" :> "x")
   @@ ("Y" :> "y") @@ ("Z" :> "z"))

UpperOf ==
  (("a" :> "A") @@ ("b" :> "B") @@ ("c" :> "C") @@ ("d" :> "D") @@ ("e" :> "E") @@ ("f" :> "F")
   @@ ("g" :> "G") @@ ("h" :> "H") @@ ("i" :> "I") @@ ("j" :> "J") @@ ("k" :> "K") @@ ("l" :> "L")
   @@ ("m" :> "M") @@ ("n" :> "N") @@ ("o" :> "O") @@ ("p" :> "P") @@ ("q" :> "Q") @@ ("r" :> "R")
   @@ ("s" :> "S") @@ ("t" :> "T") @@ ("u" :> "U") @@ ("v" :> "V") @@ ("w" :> "W") @@ ("x" :> "X")
   @@ ("y" :> "Y") @@ ("z" :> "Z"))

\* str.lower() on one character
LowerChar(c) == IF c \in DOMAIN LowerOf THEN LowerOf[c] ELSE c

UpperChar(c) == IF c \in DOMAIN UpperOf THEN UpperOf[c] ELSE c

\* str.lower()
Lower(s) == <<>> \o [i \in 1..Len(s) |-> LowerChar(s[i])]

\* \w and \s of the re module
WordChars == Range(LowerLetters) \cup Range(UpperLetters) \cup Digits \cup {"_"}
SpaceChars == {" ", "\n", "\t", "\r"}

\* s[i:] (1-based: the suffix starting at position i)
From(s, i) == SubSeq(s, i, Len(s))

\* s[a-1:b-1] for 1-based a (inclusive) and b (exclusive)
Slice(s, a, b) == SubSeq(s, a, b - 1)

\* s.startswith(sub, i-1)
StartsAt(s, sub, i) ==
  /\ i + Len(sub) - 1 <= Len(s)
  /\ \A k \in 1..Len(sub) : s[i + k - 1] = sub[k]

\* sub in s
Contains(s, sub) == \E i \in 1..(Len(s) + 1) : StartsAt(s, sub, i)

\* s.find(sub, i-1) as a 1-based position, 0 when absent
Find(s, sub, i) ==
  IF \E j \in i..(Len(s) + 1) : StartsAt(s, sub, j)
  THEN CHOOSE j \in i..(Len(s) + 1) :
         /\ StartsAt(s, sub, j)
         /\ \A k \in i..(j - 1) : ~StartsAt(s, sub, k)
  ELSE 0

RECURSIVE Concat(_)
Concat(ss) == IF ss = <<>> THEN <<>> ELSE Head(ss) \o Concat(Tail(ss))

(***************************************************************************)
(* Regular expressions, as the re module matches them: a pattern is a      *)
(* sequence of alternatives tried in order, an alternative a sequence of   *)
(* items, an item a character class with a (greedy or lazy) repetition or  *)
(* the zero-width word boundary \b.  Matching is leftmost, and backtracks  *)
(* in the order of re.  A repetition without upper limit has hi = -1.      *)
(***************************************************************************)
In(S) == [neg |-> FALSE, set |-> S]
NotIn(S) == [neg |-> TRUE, set |-> S]
InClass(c, cl) == (c \in cl.set) # cl.neg

\* a class under re.I
CI(c) == In({LowerChar(c), UpperChar(c)})

Item(cl, lo, hi, lazy) == [wb |-> FALSE, cl |-> cl, lo |-> lo, hi |-> hi, lazy |-> lazy]
One(cl) == <<Item(cl, 1, 1, FALSE)>>
Opt(cl) == <<Item(cl, 0, 1, FALSE)>>
Star(cl) == <<Item(cl, 0, -1, FALSE)>>
Plus(cl) == <<Item(cl, 1, -1, FALSE)>>
LazyStar(cl) == <<Item(cl, 0, -1, TRUE)>>
WordBoundary == <<[wb |-> TRUE, cl |-> In({}), lo |-> 0, hi |-> 0, lazy |-> FALSE]>>

\* a literal, and a literal under re.I
Lit(w) == [i \in 1..Len(w) |-> Item(In({w[i]}), 1, 1, FALSE)]
LitI(w) == [i \in 1..Len(w) |-> Item(CI(w[i]), 1, 1, FALSE)]

W == In(WordChars)
WS == In(SpaceChars)
AnyChar == NotIn({})

IsWordAt(s, i) == i >= 1 /\ i <= Len(s) /\ s[i] \in WordChars
AtBoundary(s, i) == IsWordAt(s, i - 1) # IsWordAt(s, i)

SetMin(S) == CHOOSE x \in S : \A y \in S : x <= y
SetMax(S) == CHOOSE x \in S : \A y \in S : x >= y

\* the number of consecutive characters of class cl from position i, at most hi
RunLen(cl, s, i, hi) ==
  LET rest == IF i > Len(s) THEN 0 ELSE Len(s) - i + 1
      lim == IF hi >= 0 /\ hi < rest THEN hi ELSE rest
      stop == {n \in 0..(lim - 1) : ~InClass(s[i + n], cl)}
  IN IF stop = {} THEN lim ELSE SetMin(stop)

\* EndsFn(p, k, s)[i]: the position after the match of items k.. of alternative
\* p at position i, 0 when there is none; a greedy item keeps its longest
\* repetition that lets the rest match, a lazy one its shortest.  (The tables
\* are concatenated to <<>> so that they are computed once, as tuples.)
RECURSIVE EndsFn(_, _, _)
EndsFn(p, k, s) ==
  IF k > Len(p) THEN <<>> \o [i \in 1..(Len(s) + 1) |-> i]
  ELSE LET nxt == EndsFn(p, k + 1, s) IN
       <<>> \o [i \in 1..(Len(s) + 1) |->
          IF p[k].wb THEN (IF AtBoundary(s, i) THEN nxt[i] ELSE 0)
          ELSE IF p[k].lo = 1 /\ p[k].hi = 1
          THEN (IF i <= Len(s) /\ InClass(s[i], p[k].cl) THEN nxt[i + 1] ELSE 0)
          ELSE LET run == RunLen(p[k].cl, s, i, p[k].hi)
                   ok == {n \in p[k].lo..run : nxt[i + n] # 0}
               IN IF ok = {} THEN 0
                  ELSE nxt[i + (IF p[k].lazy THEN SetMin(ok) ELSE SetMax(ok))]]

\* MatchFn(re, s)[i]: the end of the match of pattern re at position i (the first
\* alternative that matches there), 0 when none does
MatchFn(re, s) ==
  LET ends == <<>> \o [a \in 1..Len(re) |-> EndsFn(re[a], 1, s)] IN
  <<>> \o [i \in 1..(Len(s) + 1) |->
     LET alts == {a \in 1..Len(re) : ends[a][i] # 0}
     IN IF alts = {} THEN 0 ELSE ends[SetMin(alts)][i]]

\* the leftmost match from position i on, <<start, end>>, <<0, 0>> when none
NextMatch(m, i) ==
  LET starts == {j \in i..Len(m) : m[j] # 0}
  IN IF starts = {} THEN <<0, 0>> ELSE <<SetMin(starts), m[SetMin(starts)]>>

\* re.search(s) is not None
Search(re, s) == NextMatch(MatchFn(re, s), 1)[1] # 0

\* len(list(re.finditer(s))), len(re.findall(s)): non-overlapping matches, left to
\* right (no pattern of the source matches the empty string)
RECURSIVE CountFrom(_, _)
CountFrom(m, i) ==
  LET nm == NextMatch(m, i) IN
  IF nm[1] = 0 THEN 0 ELSE 1 + CountFrom(m, nm[2])

CountMatches(re, s) == CountFrom(MatchFn(re, s), 1)

\* re.sub(re, repl, s) for a constant replacement
RECURSIVE SubFrom(_, _, _, _)
SubFrom(m, repl, s, i) ==
  LET nm == NextMatch(m, i) IN
  IF nm[1] = 0 THEN From(s, i)
  ELSE Slice(s, i, nm[1]) \o repl \o SubFrom(m, repl, s, nm[2])

Sub(re, repl, s) == SubFrom(MatchFn(re, s), repl, s, 1)

(***************************************************************************)
(* String constants of the source                                          *)
(***************************************************************************)
S_script == <<"s","c","r","i","p","t">>
S_on == <<"o","n">>
S_href == <<"h","r","e","f">>
S_javascript_colon == <<"j","a","v","a","s","c","r","i","p","t",":">>
S_javascript == <<"j","a","v","a","s","c","r","i","p","t">>
S_iframe == <<"i","f","r","a","m","e">>
S_srcdoc == <<"s","r","c","d","o","c">>
S_src == <<"s","r","c">>
S_data_colon == <<"d","a","t","a",":">>
S_svg == <<"s","v","g">>
S_onload == <<"o","n","l","o","a","d">>
S_meta == <<"m","e","t","a">>
S_http_equiv == <<"h","t","t","p","-","e","q","u","i","v">>
S_refresh == <<"r","e","f","r","e","s","h">>
\* 'href="#"'
S_href_hash == <<"h","r","e","f","=","\"","#","\"">>

DQ == "\""
SQ == "'"
Quotes == In({DQ, SQ})
NotGt == NotIn({">"})

(***************************************************************************)
(* XSS_PATTERNS, XSS_RE and detect_vectors                                 *)
(***************************************************************************)
\* r"<\s*script\b", re.I
RE_script_tag == <<Lit(<<"<">>) \o Star(WS) \o LitI(S_script) \o WordBoundary>>

\* r"<\s*\w+[^>]*\s+on\w+\s*=", re.I
RE_on_attr ==
  <<Lit(<<"<">>) \o Star(WS) \o Plus(W) \o Star(NotGt) \o Plus(WS) \o LitI(S_on)
      \o Plus(W) \o Star(WS) \o Lit(<<"=">>)>>

\* r'href\s*=\s*["\']\s*javascript:', re.I
RE_javascript_href ==
  <<LitI(S_href) \o Star(WS) \o Lit(<<"=">>) \o Star(WS) \o One(Quotes) \o Star(WS)
      \o LitI(S_javascript_colon)>>

\* r"<\s*iframe[^>]+srcdoc\s*=", re.I
RE_iframe_srcdoc ==
  <<Lit(<<"<">>) \o Star(WS) \o LitI(S_iframe) \o Plus(NotGt) \o LitI(S_srcdoc)
      \o Star(WS) \o Lit(<<"=">>)>>

\* r'src\s*=\s*["\']\s*data:', re.I
RE_data_src ==
  <<LitI(S_src) \o Star(WS) \o Lit(<<"=">>) \o Star(WS) \o One(Quotes) \o Star(WS)
      \o LitI(S_data_colon)>>

\* r"<\s*svg[^>]+onload\s*=", re.I
RE_svg_onload ==
  <<Lit(<<"<">>) \o Star(WS) \o LitI(S_svg) \o Plus(NotGt) \o LitI(S_onload)
      \o Star(WS) \o Lit(<<"=">>)>>

\* r"<\s*meta[^>]+http-equiv\s*=\s*(['\"])refresh\1", re.I: one alternative per quote
RE_meta_refresh_q(q) ==
  Lit(<<"<">>) \o Star(WS) \o LitI(S_meta) \o Plus(NotGt) \o LitI(S_http_equiv)
    \o Star(WS) \o Lit(<<"=">>) \o Star(WS) \o Lit(<<q>>) \o LitI(S_refresh) \o Lit(<<q>>)

RE_meta_refresh == <<RE_meta_refresh_q(SQ), RE_meta_refresh_q(DQ)>>

\* r'on\w+\s*=', re.I
RE_on_attr_any == <<LitI(S_on) \o Plus(W) \o Star(WS) \o Lit(<<"=">>)>>

\* XSS_RE: r"<\s*script\b|on\w+\s*=|javascript\s*:", re.I
XSS_RE ==
  <<Lit(<<"<">>) \o Star(WS) \o LitI(S_script) \o WordBoundary,
    LitI(S_on) \o Plus(W) \o Star(WS) \o Lit(<<"=">>),
    LitI(S_javascript) \o Star(WS) \o Lit(<<":">>)>>

\* the keys of the dictionary detect_vectors returns
Families ==
  {"script_tag", "on_attr", "javascript_href", "iframe_srcdoc", "data_src",
   "svg_onload", "meta_refresh", "on_attr_any"}

XSS_PATTERNS(name) ==
  CASE name = "script_tag" -> RE_script_tag
    [] name = "on_attr" -> RE_on_attr
    [] name = "javascript_href" -> RE_javascript_href
    [] name = "iframe_srcdoc" -> RE_iframe_srcdoc
    [] name = "data_src" -> RE_data_src
    [] name = "svg_onload" -> RE_svg_onload
    [] name = "meta_refresh" -> RE_meta_refresh
    [] name = "on_attr_any" -> RE_on_attr_any

\* detect_vectors: counts["script_tag"] is written twice with the same pattern
detect_vectors(text) == [name \in Families |-> CountMatches(XSS_PATTERNS(name), text)]

(***************************************************************************)
(* HTML tags, as an HTML tokenizer reads them: "<" and a letter open a     *)
(* start tag, "</" and a letter an end tag; a tag name ends at white       *)
(* space, "/" or ">"; an attribute is a name, optionally "=" and a value   *)
(* that is quoted or runs to the next white space or ">".  A tag that the  *)
(* text ends in is no tag.                                                 *)
(***************************************************************************)
Letters == Range(LowerLetters) \cup Range(UpperLetters)

\* the first position from i on whose character is of class cl, Len(s)+1 when none
FirstPos(s, i, cl) ==
  LET c == {j \in i..Len(s) : InClass(s[j], cl)}
  IN IF c = {} THEN Len(s) + 1 ELSE SetMin(c)

RECURSIVE ParseAttrs(_, _, _)
ParseAttrs(s, j0, acc) ==
  LET j == FirstPos(s, j0, NotIn(SpaceChars \cup {"/"})) IN
  IF j > Len(s) THEN [ok |-> FALSE, attrs |-> acc, next |-> j]
  ELSE IF s[j] = ">" THEN [ok |-> TRUE, attrs |-> acc, next |-> j + 1]
  ELSE
    LET ne == FirstPos(s, j + 1, In(SpaceChars \cup {"/", ">", "="}))
        name == Lower(Slice(s, j, ne))
        e1 == FirstPos(s, ne, NotIn(SpaceChars))
    IN IF e1 <= Len(s) /\ s[e1] = "="
       THEN LET v0 == FirstPos(s, e1 + 1, NotIn(SpaceChars)) IN
            IF v0 > Len(s) THEN [ok |-> FALSE, attrs |-> acc, next |-> v0]
            ELSE IF s[v0] \in {DQ, SQ}
            THEN LET q == FirstPos(s, v0 + 1, In({s[v0]})) IN
                 IF q > Len(s) THEN [ok |-> FALSE, attrs |-> acc, next |-> q]
                 ELSE ParseAttrs(s, q + 1, Append(acc, [n |-> name, v |-> Slice(s, v0 + 1, q)]))
            ELSE IF s[v0] = ">"
            THEN ParseAttrs(s, v0, Append(acc, [n |-> name, v |-> <<>>]))
            ELSE LET ve == FirstPos(s, v0, In(SpaceChars \cup {">"})) IN
                 ParseAttrs(s, ve, Append(acc, [n |-> name, v |-> Slice(s, v0, ve)]))
       ELSE ParseAttrs(s, ne, Append(acc, [n |-> name, v |-> <<>>]))

\* the tag that starts at position i, where s[i] = "<": kind is "start", "end",
\* "eof" (the text ends inside the tag) or "none" (no tag starts here)
ParseTag(s, i) ==
  IF i + 1 <= Len(s) /\ s[i + 1] \in Letters
  THEN With(FirstPos(s, i + 1, In(SpaceChars \cup {"/", ">"})), LAMBDA ne :
         With(ParseAttrs(s, ne, <<>>), LAMBDA a :
           [kind |-> IF a.ok THEN "start" ELSE "eof",
            name |-> Lower(Slice(s, i + 1, ne)), attrs |-> a.attrs, next |-> a.next]))
  ELSE IF i + 2 <= Len(s) /\ s[i + 1] = "/" /\ s[i + 2] \in Letters
  THEN LET ne == FirstPos(s, i + 2, In(SpaceChars \cup {"/", ">"}))
           gt == FirstPos(s, ne, In({">"}))
       IN [kind |-> IF gt <= Len(s) THEN "end" ELSE "eof",
           name |-> Lower(Slice(s, i + 2, ne)), attrs |-> <<>>, next |-> gt + 1]
  ELSE [kind |-> "none", name |-> <<>>, attrs |-> <<>>, next |-> i + 1]

(***************************************************************************)
(* bleach.clean(raw_html, tags, attributes, strip=True), the library call  *)
(* of server_sanitize.  A tag whose name is not allowed is stripped by the *)
(* tokenizer (a block-level start tag leaves a newline when something was  *)
(* emitted before it); the text between tags is kept and escaped; an       *)
(* allowed tag keeps its allowed attributes, without those whose URI has a *)
(* scheme other than http, https, mailto, and is written with its          *)
(* attributes quoted; elements left open are closed at the end.            *)
(***************************************************************************)
Str1(c) == <<c>>
S_amp == <<"&","a","m","p",";">>
S_lt == <<"&","l","t",";">>
S_gt == <<"&","g","t",";">>
S_quot == <<"&","q","u","o","t",";">>
S_apos == <<"&","#","3","9",";">>

\* the character references the model knows, with the character each stands for
Entities == <<S_amp, S_lt, S_gt, S_quot, S_apos>>
EntityChar == <<"&", "<", ">", DQ, SQ>>

EntityAt(s, i) == {e \in 1..Len(Entities) : StartsAt(s, Entities[e], i)}

\* line 581
allowed_tags ==
  {<<"b">>, <<"i">>, <<"u">>, <<"e","m">>, <<"s","t","r","o","n","g">>, <<"p">>,
   <<"b","r">>, <<"u","l">>, <<"o","l">>, <<"l","i">>, <<"a">>, <<"h","1">>,
   <<"h","2">>, <<"i","m","g">>, <<"d","i","v">>, <<"s","p","a","n">>,
   <<"p","r","e">>, <<"c","o","d","e">>}

S_title == <<"t","i","t","l","e">>
S_rel == <<"r","e","l">>
S_alt == <<"a","l","t">>

\* line 582
allowed_attrs(tag) ==
  IF tag = <<"a">> THEN {S_href, S_title, S_rel}
  ELSE IF tag = <<"i","m","g">> THEN {S_src, S_alt, S_title}
  ELSE {}

VoidTags == {<<"b","r">>, <<"i","m","g">>}

BlockLevelTags ==
  {<<"a","d","d","r","e","s","s">>, <<"a","r","t","i","c","l","e">>, <<"a","s","i","d","e">>,
   <<"b","l","o","c","k","q","u","o","t","e">>, <<"d","e","t","a","i","l","s">>,
   <<"d","i","a","l","o","g">>, <<"d","d">>, <<"d","i","v">>, <<"d","l">>, <<"d","t">>,
   <<"f","i","e","l","d","s","e","t">>, <<"f","i","g","c","a","p","t","i","o","n">>,
   <<"f","i","g","u","r","e">>, <<"f","o","o","t","e","r">>, <<"f","o","r","m">>,
   <<"h","1">>, <<"h","2">>, <<"h","3">>, <<"h","4">>, <<"h","5">>, <<"h","6">>,
   <<"h","e","a","d","e","r">>, <<"h","g","r","o","u","p">>, <<"h","r">>, <<"l","i">>,
   <<"m","a","i","n">>, <<"n","a","v">>, <<"o","l">>, <<"p">>, <<"p","r","e">>,
   <<"s","e","c","t","i","o","n">>, <<"t","a","b","l","e">>, <<"u","l">>}

AllowedProtocols ==
  {<<"h","t","t","p">>, <<"h","t","t","p","s">>, <<"m","a","i","l","t","o">>}

SchemeChars == Letters \cup Digits \cup {"+", "-", "."}

\* the URI check of an href or src value: the value without white space, in lower
\* case, is refused when it has a scheme that is not an allowed protocol
UriAllowed(v) ==
  LET keep == {i \in 1..Len(v) : v[i] \notin SpaceChars}
      norm == Lower([k \in 1..Cardinality(keep) |->
                       v[CHOOSE i \in keep : Cardinality({j \in keep : j < i}) = k - 1]])
      colon == FirstPos(norm, 1, In({":"}))
      hasScheme == /\ colon <= Len(norm)
                   /\ colon > 1
                   /\ norm[1] \in Letters
                   /\ \A i \in 1..(colon - 1) : norm[i] \in SchemeChars
  IN hasScheme => Slice(norm, 1, colon) \in AllowedProtocols

\* one character of text, as the serializer writes it
EscapeText(s, i) ==
  IF s[i] = "<" THEN S_lt
  ELSE IF s[i] = ">" THEN S_gt
  ELSE IF s[i] = "&" /\ EntityAt(s, i) = {} THEN S_amp
  ELSE <<s[i]>>

\* the text s[a..b-1], as the serializer writes it
RECURSIVE EscapeRun(_, _, _)
EscapeRun(s, a, b) ==
  IF a >= b THEN <<>>
  ELSE IF b = a + 1 THEN EscapeText(s, a)
  ELSE EscapeRun(s, a, (a + b) \div 2) \o EscapeRun(s, (a + b) \div 2, b)

\* one character of an attribute value between the quotes q
EscapeAttrChar(v, i, q) ==
  IF v[i] = "<" THEN S_lt
  ELSE IF v[i] = "&" /\ EntityAt(v, i) = {} THEN S_amp
  ELSE IF v[i] = q THEN (IF q = DQ THEN S_quot ELSE S_apos)
  ELSE <<v[i]>>

RECURSIVE EscapeAttr(_, _, _, _)
EscapeAttr(v, a, b, q) ==
  IF a >= b THEN <<>>
  ELSE IF b = a + 1 THEN EscapeAttrChar(v, a, q)
  ELSE EscapeAttr(v, a, (a + b) \div 2, q) \o EscapeAttr(v, (a + b) \div 2, b, q)

QuotedAttr(v) ==
  LET q == IF (\E i \in 1..Len(v) : v[i] = DQ) /\ ~(\E i \in 1..Len(v) : v[i] = SQ)
           THEN SQ ELSE DQ
  IN <<q>> \o EscapeAttr(v, 1, Len(v) + 1, q) \o <<q>>

RECURSIVE SerializeAttrs(_, _, _)
SerializeAttrs(tag, attrs, k) ==
  IF k > Len(attrs) THEN <<>>
  ELSE (IF /\ attrs[k].n \in allowed_attrs(tag)
           /\ \A j \in 1..(k - 1) : attrs[j].n # attrs[k].n
           /\ (attrs[k].n \in {S_href, S_src} => UriAllowed(attrs[k].v))
        THEN <<" ">> \o attrs[k].n \o <<"=">> \o QuotedAttr(attrs[k].v)
        ELSE <<>>) \o SerializeAttrs(tag, attrs, k + 1)

RECURSIVE CloseTags(_)
CloseTags(open) ==
  IF open = <<>> THEN <<>>
  ELSE <<"<", "/">> \o open[Len(open)] \o <<">">> \o CloseTags(SubSeq(open, 1, Len(open) - 1))

\* the output from position i on; open is the stack of open allowed elements,
\* emitted says whether a token was emitted before
RECURSIVE BleachFrom(_, _, _, _)
BleachFrom(s, i, open, emitted) ==
  IF i > Len(s) THEN CloseTags(open)
  ELSE IF s[i] # "<"
  THEN LET lt == FirstPos(s, i, In({"<"})) IN
       EscapeRun(s, i, lt) \o BleachFrom(s, lt, open, TRUE)
  ELSE
    With(ParseTag(s, i), LAMBDA t :
    IF t.kind \in {"none", "eof"} THEN S_lt \o BleachFrom(s, i + 1, open, TRUE)
    ELSE IF t.name \notin allowed_tags
    THEN (IF t.kind = "start" /\ emitted /\ t.name \in BlockLevelTags THEN <<"\n">> ELSE <<>>)
           \o BleachFrom(s, t.next, open, TRUE)
    ELSE IF t.kind = "start"
    THEN <<"<">> \o t.name \o SerializeAttrs(t.name, t.attrs, 1) \o <<">">>
           \o BleachFrom(s, t.next, IF t.name \in VoidTags THEN open ELSE Append(open, t.name), TRUE)
    ELSE LET at == {k \in 1..Len(open) : open[k] = t.name} IN
         IF at = {} THEN BleachFrom(s, t.next, open, TRUE)
         ELSE CloseTags(SubSeq(open, SetMax(at), Len(open)))
                \o BleachFrom(s, t.next, SubSeq(open, 1, SetMax(at) - 1), TRUE))

bleach_clean(raw_html) == BleachFrom(raw_html, 1, <<>>, FALSE)

(***************************************************************************)
(* server_sanitize                                                         *)
(***************************************************************************)
RE_on_prefix ==
  Plus(WS) \o LitI(S_on) \o Plus(W) \o Star(WS) \o Lit(<<"=">>) \o Star(WS)

\* r'\s+on\w+\s*=\s*(?:"[^"]*"|\'[^\']*\'|[^\s>]+)', re.I
RE_strip_on ==
  <<RE_on_prefix \o Lit(<<DQ>>) \o Star(NotIn({DQ})) \o Lit(<<DQ>>),
    RE_on_prefix \o Lit(<<SQ>>) \o Star(NotIn({SQ})) \o Lit(<<SQ>>),
    RE_on_prefix \o Plus(NotIn(SpaceChars \cup {">"}))>>

\* r'href\s*=\s*(["\'])\s*javascript:[^"\']*\1', re.I: one alternative per quote
RE_strip_js_q(q) ==
  LitI(S_href) \o Star(WS) \o Lit(<<"=">>) \o Star(WS) \o Lit(<<q>>) \o Star(WS)
    \o LitI(S_javascript_colon) \o Star(NotIn({DQ, SQ})) \o Lit(<<q>>)

RE_strip_js == <<RE_strip_js_q(DQ), RE_strip_js_q(SQ)>>

\* r'src\s*=\s*(["\'])\s*data:[^"\']*\1', re.I
RE_strip_data_q(q) ==
  LitI(S_src) \o Star(WS) \o Lit(<<"=">>) \o Star(WS) \o Lit(<<q>>) \o Star(WS)
    \o LitI(S_data_colon) \o Star(NotIn({DQ, SQ})) \o Lit(<<q>>)

RE_strip_data == <<RE_strip_data_q(DQ), RE_strip_data_q(SQ)>>

server_sanitize(raw_html) ==
  With(bleach_clean(raw_html), LAMBDA cleaned0 :
    With(Sub(RE_strip_on, <<>>, cleaned0), LAMBDA cleaned1 :
      With(Sub(RE_strip_js, S_href_hash, cleaned1), LAMBDA cleaned2 :
        Sub(RE_strip_data, <<>>, cleaned2))))

(***************************************************************************)
(* String constants of AGENT_SCRIPT and IMPROVED_AUTO_CLICK                *)
(***************************************************************************)
\* 'agent active'
S_agent_active ==
  <<"a","g","e","n","t"," ","a","c","t","i","v","e">>
\* 'Auto-click already executed, skipping'
S_skip ==
  <<"A","u","t","o","-","c","l","i","c","k"," ","a","l","r","e","a","d","y"," ","e","x","e","c","u","t","e","d",","," ","s","k","i","p","p","i","n","g">>
\* 'Auto-click script started'
S_started ==
  <<"A","u","t","o","-","c","l","i","c","k"," ","s","c","r","i","p","t"," ","s","t","a","r","t","e","d">>
\* 'Executing inline on* attributes'
S_exec_inline ==
  <<"E","x","e","c","u","t","i","n","g"," ","i","n","l","i","n","e"," ","o","n","*"," ","a","t","t","r","i","b","u","t","e","s">>
\* 'Found '
S_found ==
  <<"F","o","u","n","d"," ">>
\* ' elements with '
S_elements_with ==
  <<" ","e","l","e","m","e","n","t","s"," ","w","i","t","h"," ">>
\* 'Executing '
S_executing ==
  <<"E","x","e","c","u","t","i","n","g"," ">>
\* ': '
S_colon_sp ==
  <<":"," ">>
\* 'Successfully executed: '
S_success ==
  <<"S","u","c","c","e","s","s","f","u","l","l","y"," ","e","x","e","c","u","t","e","d",":"," ">>
\* 'Error executing '
S_error_executing ==
  <<"E","r","r","o","r"," ","e","x","e","c","u","t","i","n","g"," ">>
\* 'Special double click handling'
S_special ==
  <<"S","p","e","c","i","a","l"," ","d","o","u","b","l","e"," ","c","l","i","c","k"," ","h","a","n","d","l","i","n","g">>
\* 'Attempting double click on element: '
S_attempt ==
  <<"A","t","t","e","m","p","t","i","n","g"," ","d","o","u","b","l","e"," ","c","l","i","c","k"," ","o","n"," ","e","l","e","m","e","n","t",":"," ">>
\* 'Dispatching events to interactive elements'
S_dispatching ==
  <<"D","i","s","p","a","t","c","h","i","n","g"," ","e","v","e","n","t","s"," ","t","o"," ","i","n","t","e","r","a","c","t","i","v","e"," ","e","l","e","m","e","n","t","s">>
\* 'Triggering image onerror'
S_triggering ==
  <<"T","r","i","g","g","e","r","i","n","g"," ","i","m","a","g","e"," ","o","n","e","r","r","o","r">>
\* 'Forced broken image src for: '
S_forced ==
  <<"F","o","r","c","e","d"," ","b","r","o","k","e","n"," ","i","m","a","g","e"," ","s","r","c"," ","f","o","r",":"," ">>
\* 'Executing javascript: hrefs'
S_exec_hrefs ==
  <<"E","x","e","c","u","t","i","n","g"," ","j","a","v","a","s","c","r","i","p","t",":"," ","h","r","e","f","s">>
\* 'Executing javascript: href: '
S_exec_href ==
  <<"E","x","e","c","u","t","i","n","g"," ","j","a","v","a","s","c","r","i","p","t",":"," ","h","r","e","f",":"," ">>
\* 'Auto-click script completed. Total executions: '
S_completed ==
  <<"A","u","t","o","-","c","l","i","c","k"," ","s","c","r","i","p","t"," ","c","o","m","p","l","e","t","e","d","."," ","T","o","t","a","l"," ","e","x","e","c","u","t","i","o","n","s",":"," ">>
\* 'event,'
S_event_comma ==
  <<"e","v","e","n","t",",">>
\* '</script'
S_end_script ==
  <<"<","/","s","c","r","i","p","t">>
\* 'alert('
S_alert_call ==
  <<"a","l","e","r","t","(">>
\* 'utilityscript'
S_utilityscript ==
  <<"u","t","i","l","i","t","y","s","c","r","i","p","t">>
\* 'playwright'
S_playwright ==
  <<"p","l","a","y","w","r","i","g","h","t">>
\* 'puppeteer'
S_puppeteer ==
  <<"p","u","p","p","e","t","e","e","r">>
\* 'webdriver'
S_webdriver ==
  <<"w","e","b","d","r","i","v","e","r">>
\* 'electron'
S_electron ==
  <<"e","l","e","c","t","r","o","n">>
\* 'chromium'
S_chromium ==
  <<"c","h","r","o","m","i","u","m">>
\* 'Invalid or unexpected token'
S_syntax_error ==
  <<"I","n","v","a","l","i","d"," ","o","r"," ","u","n","e","x","p","e","c","t","e","d"," ","t","o","k","e","n">>

(***************************************************************************)
(* The browser.  (new Error()).stack is the browser's text: a call made by *)
(* script of the page has the page's frames, a call made from the          *)
(* automation tooling has frames of that tooling.                          *)
(***************************************************************************)
\* 'Error at about:blank:1:1'
PageStack ==
  <<"E","r","r","o","r"," ","a","t"," ","a","b","o","u","t",":","b","l","a","n","k",":","1",":","1">>

\* 'Error at UtilityScript.evaluate'
UtilityStack ==
  <<"E","r","r","o","r"," ","a","t"," ","U","t","i","l","i","t","y","S","c","r","i","p","t",".","e","v","a","l","u","a","t","e">>

\* 'Error at PLAYWRIGHT'
PlaywrightStack ==
  <<"E","r","r","o","r"," ","a","t"," ","P","L","A","Y","W","R","I","G","H","T">>

AutomationStacks == {UtilityStack, PlaywrightStack}

\* line 89: /utilityscript|playwright|puppeteer|webdriver|electron|chromium/i
RE_instrument ==
  <<LitI(S_utilityscript), LitI(S_playwright), LitI(S_puppeteer), LitI(S_webdriver),
    LitI(S_electron), LitI(S_chromium)>>

\* s.slice(0, n)
Trunc(s, n) == IF Len(s) > n THEN SubSeq(s, 1, n) ELSE s

\* a push that records every event as organic, whatever its stack: what C22
\* rules out
pushOrganic(pg, type, snippet, stack) ==
  [pg EXCEPT !.log = Append(@, <<type, Trunc(snippet, 1200), stack, pg.t, FALSE>>),
             !.xss_executed = TRUE,
             !.t = @ + 1]

\* push(type, snippet, stack) of AGENT_SCRIPT; pg.t is the page's clock (now())
push(pg, type, snippet, stack) ==
  LET isInstrument == Search(RE_instrument, stack) IN
  [pg EXCEPT !.log = Append(@, <<type, Trunc(snippet, 1200), stack, pg.t, isInstrument>>),
             !.xss_executed = @ \/ ~isInstrument,
             !.t = @ + 1]

\* lines 95-184: the capabilities the agent hooks, by the try block that
\* installs them, in the order of the installation
AgentBlocks ==
  <<<<"alert", "confirm", "prompt">>,
    <<"eval">>,
    <<"Function">>,
    <<"setTimeout", "setInterval">>,
    <<"onclick", "ondblclick", "onerror", "onmouseover", "onfocus", "onmouseenter",
      "onmouseleave", "onblur", "onsubmit">>,
    <<"addEventListener">>>>

Capabilities == UNION {Range(AgentBlocks[b]) : b \in DOMAIN AgentBlocks}

\* one try block: the hooks are installed one after another, and an
\* installation that throws leaves the block for its catch
BlockHooks(block, unhookable) ==
  {block[k] : k \in {j \in DOMAIN block : \A h \in 1..j : block[h] \notin unhookable}}

\* the hooks in place after the six blocks, in a page whose capabilities in
\* unhookable cannot be replaced
InstalledHooks(unhookable) ==
  UNION {BlockHooks(AgentBlocks[b], unhookable) : b \in DOMAIN AgentBlocks}

\* the agent's script block: the log is created, the hooks are installed, the
\* heartbeat is logged
AGENT_SCRIPT(pg) ==
  push([pg EXCEPT !.agent = TRUE, !.log = <<>>, !.xss_executed = FALSE,
                  !.hooks = InstalledHooks(pg.unhookable)],
       "agent_loaded", S_agent_active, PageStack)

\* xssLog(msg) of IMPROVED_AUTO_CLICK: nothing when window.__xss_log is undefined
xssLog(pg, msg) ==
  IF pg.agent
  THEN [pg EXCEPT !.log = Append(@, <<"debug", Trunc(msg, 500), PageStack, pg.t, FALSE>>),
                  !.t = @ + 1]
  ELSE pg

(***************************************************************************)
(* Script of the candidate, as far as the model runs it: code with a       *)
(* backslash outside what JavaScript allows does not compile; code that    *)
(* calls alert(x) reaches window.alert with x.                             *)
(***************************************************************************)
Compiles(code) == ~Contains(code, <<"\\">>)

\* the argument text of the first alert( call, without its quotes
AlertArg(code) ==
  LET a == Find(code, S_alert_call, 1) + Len(S_alert_call)
      b == FirstPos(code, a, In({")"}))
      arg == Slice(code, a, b)
  IN IF Len(arg) >= 2 /\ arg[1] \in {DQ, SQ} /\ arg[Len(arg)] = arg[1]
     THEN SubSeq(arg, 2, Len(arg) - 1) ELSE arg

\* a page in which no code runs: what C8 rules out
NoCode(pg, code) == pg

\* running code in the page: the alert hook (lines 97-98) logs and forwards
RunCode(pg, code) ==
  IF Compiles(code) /\ Contains(code, S_alert_call) /\ "alert" \in pg.hooks
  THEN push(pg, "alert", AlertArg(code), PageStack)
  ELSE pg

\* new Function(args..., code) under the Function hook (lines 111-117): the hook
\* logs the joined arguments, then the original constructor compiles the code
NewFunction(pg, joined) ==
  IF "Function" \in pg.hooks THEN push(pg, "Function", Trunc(joined, 2000), PageStack) ELSE pg

(***************************************************************************)
(* The HTML parser of the page: the elements and the inline scripts of a   *)
(* text, in document order.  A script element's text runs to "</script".   *)
(***************************************************************************)
\* the position of the first "</script" (any case) from i on that ends a script
\* element, 0 when there is none
ScriptEnd(s, i) ==
  LET l == Lower(s)
      c == {p \in i..Len(s) : /\ StartsAt(l, S_end_script, p)
                              /\ p + Len(S_end_script) <= Len(s)
                              /\ s[p + Len(S_end_script)] \in SpaceChars \cup {"/", ">"}}
  IN IF c = {} THEN 0 ELSE SetMin(c)

HasAttr(el, name) == \E k \in 1..Len(el.attrs) : el.attrs[k].n = name

\* el.getAttribute(name), the empty text when the attribute is missing
GetAttr(el, name) ==
  IF HasAttr(el, name)
  THEN el.attrs[SetMin({k \in 1..Len(el.attrs) : el.attrs[k].n = name})].v
  ELSE <<>>

RECURSIVE DomFrom(_, _)
DomFrom(s, i) ==
  With(FirstPos(s, i, In({"<"})), LAMBDA lt :
  IF lt > Len(s) THEN <<>>
  ELSE
    With(ParseTag(s, lt), LAMBDA t :
    IF t.kind = "start" /\ t.name = S_script
    THEN LET e == ScriptEnd(s, t.next) IN
         IF e = 0 THEN <<>>
         ELSE <<[k |-> "script", tag |-> t.name, attrs |-> t.attrs, code |-> Slice(s, t.next, e)]>>
                \o DomFrom(s, FirstPos(s, e, In({">"})) + 1)
    ELSE IF t.kind = "start"
    THEN <<[k |-> "el", tag |-> t.name, attrs |-> t.attrs, code |-> <<>>]>> \o DomFrom(s, t.next)
    ELSE IF t.kind = "end" THEN DomFrom(s, t.next)
    ELSE IF t.kind = "eof" THEN <<>>
    ELSE DomFrom(s, lt + 1)))

DomParse(html) == DomFrom(html, 1)

\* the parser takes the nodes in: an inline script without src runs at once, an
\* element joins the document
RECURSIVE InsertNodes(_, _, _)
InsertNodes(pg, nodes, k) ==
  IF k > Len(nodes) THEN pg
  ELSE IF nodes[k].k = "script"
  THEN InsertNodes(IF HasAttr(nodes[k], S_src) THEN pg ELSE RunCode(pg, nodes[k].code), nodes, k + 1)
  ELSE InsertNodes([pg EXCEPT !.dom = Append(@, [tag |-> nodes[k].tag, attrs |-> nodes[k].attrs])],
                   nodes, k + 1)

(***************************************************************************)
(* IMPROVED_AUTO_CLICK, the trigger driver                                 *)
(***************************************************************************)
\* line 237: attrs
DriverAttrs ==
  <<<<"o","n","c","l","i","c","k">>,
    <<"o","n","d","b","l","c","l","i","c","k">>,
    <<"o","n","e","r","r","o","r">>,
    <<"o","n","m","o","u","s","e","o","v","e","r">>,
    <<"o","n","m","o","u","s","e","e","n","t","e","r">>,
    <<"o","n","f","o","c","u","s">>,
    <<"o","n","b","l","u","r">>,
    <<"o","n","s","u","b","m","i","t">>,
    <<"o","n","c","h","a","n","g","e">>,
    <<"o","n","i","n","p","u","t">>,
    <<"o","n","l","o","a","d">>>>

\* line 292: the selector of the interactive elements
InteractiveTags ==
  {<<"b","u","t","t","o","n">>,
   <<"a">>,
   <<"i","n","p","u","t">>,
   <<"t","e","x","t","a","r","e","a">>,
   <<"s","e","l","e","c","t">>,
   <<"f","o","r","m">>,
   <<"t","d">>,
   <<"d","i","v">>,
   <<"s","p","a","n">>,
   <<"i","m","g">>}

S_onclick == DriverAttrs[1]
S_ondblclick == DriverAttrs[2]
S_onerror == DriverAttrs[3]
S_onsubmit == DriverAttrs[8]
\* 'form'
S_form ==
  <<"f","o","r","m">>

\* 'img'
S_img ==
  <<"i","m","g">>

\* 'a'
S_a ==
  <<"a">>

\* 'http://invalid-url-.png'
S_invalid_url ==
  <<"h","t","t","p",":","/","/","i","n","v","a","l","i","d","-","u","r","l","-",".","p","n","g">>

\* 'http://127.0.0.1:9/broken.png'
S_broken_url ==
  <<"h","t","t","p",":","/","/","1","2","7",".","0",".","0",".","1",":","9","/","b","r","o","k","e","n",".","p","n","g">>

DigitChar == <<"0","1","2","3","4","5","6","7","8","9">>

\* the decimal text of a number ('' + n)
RECURSIVE NumStr(_)
NumStr(n) ==
  IF n < 10 THEN <<DigitChar[n + 1]>>
  ELSE NumStr(n \div 10) \o <<DigitChar[(n % 10) + 1]>>

\* str.upper(), el.tagName
Upper(s) == <<>> \o [i \in 1..Len(s) |-> UpperChar(s[i])]

\* String.prototype.trim
Trim(s) ==
  LET a == FirstPos(s, 1, NotIn(SpaceChars))
      keep == {j \in 1..Len(s) : s[j] \notin SpaceChars}
  IN IF keep = {} THEN <<>> ELSE SubSeq(s, a, SetMax(keep))

\* document.querySelectorAll('[attr]')
WithAttr(dom, attr) ==
  LET Test(el) == HasAttr(el, attr) IN SelectSeq(dom, Test)

\* the browser runs the inline handler of an element for an event dispatched
\* to it, unless the document's policy forbids inline script
RunHandler(pg, el, attr) ==
  IF HasAttr(el, attr) /\ ~pg.csp THEN RunCode(pg, GetAttr(el, attr)) ELSE pg

\* a first step that swallows a failing handler without a word: what C25
\* rules out
RECURSIVE Step1ElsSilent(_, _, _, _)
Step1ElsSilent(st, attr, els, e) ==
  IF e > Len(els) THEN st
  ELSE
    With(GetAttr(els[e], attr), LAMBDA code :
    IF code = <<>> THEN Step1ElsSilent(st, attr, els, e + 1)
    ELSE
      With(xssLog(st.pg, S_executing \o attr \o S_colon_sp \o Trunc(code, 100)), LAMBDA a :
      With(NewFunction(a, S_event_comma \o code), LAMBDA b :
         IF Compiles(code)
         THEN Step1ElsSilent([pg |-> xssLog(RunCode(b, code), S_success \o attr), n |-> st.n + 1],
                             attr, els, e + 1)
         ELSE Step1ElsSilent([pg |-> b, n |-> st.n], attr, els, e + 1))))

\* lines 240-266, for the elements of one attribute; st = [pg, n] with n the
\* driver's executedCount
RECURSIVE Step1Els(_, _, _, _)
Step1Els(st, attr, els, e) ==
  IF e > Len(els) THEN st
  ELSE
    With(GetAttr(els[e], attr), LAMBDA code :
    IF code = <<>> THEN Step1Els(st, attr, els, e + 1)
    ELSE
      With(xssLog(st.pg, S_executing \o attr \o S_colon_sp \o Trunc(code, 100)), LAMBDA a :
      With(NewFunction(a, S_event_comma \o code), LAMBDA b :
         IF Compiles(code)
         THEN Step1Els([pg |-> xssLog(RunCode(b, code), S_success \o attr), n |-> st.n + 1],
                       attr, els, e + 1)
         ELSE Step1Els([pg |-> xssLog(b, S_error_executing \o attr \o S_colon_sp \o S_syntax_error),
                        n |-> st.n],
                       attr, els, e + 1))))

\* lines 240-267: attrs.forEach
RECURSIVE Step1Attrs(_, _)
Step1Attrs(st, k) ==
  IF k > Len(DriverAttrs) THEN st
  ELSE
    With(DriverAttrs[k], LAMBDA attr :
    With(WithAttr(st.pg.dom, attr), LAMBDA els :
    With(xssLog(st.pg, S_found \o NumStr(Len(els)) \o S_elements_with \o attr), LAMBDA a :
      Step1Attrs(Step1Els([pg |-> a, n |-> st.n], attr, els, 1), k + 1))))

\* lines 270-288
RECURSIVE Step2Els(_, _, _)
Step2Els(pg, els, e) ==
  IF e > Len(els) THEN pg
  ELSE Step2Els(RunHandler(xssLog(pg, S_attempt \o Upper(els[e].tag)), els[e], S_ondblclick),
                els, e + 1)

\* lines 291-306
RECURSIVE Step3Els(_, _)
Step3Els(pg, e) ==
  IF e > Len(pg.dom) THEN pg
  ELSE
    With(pg.dom[e], LAMBDA el :
    IF el.tag \notin InteractiveTags THEN Step3Els(pg, e + 1)
    ELSE
      With(RunHandler(pg, el, S_onclick), LAMBDA a :
      With(RunHandler(a, el, S_ondblclick), LAMBDA b :
      With(IF el.tag = S_form THEN RunHandler(b, el, S_onsubmit) ELSE b, LAMBDA c :
        Step3Els(c, e + 1)))))

\* el.setAttribute(name, v)
SetAttr(el, name, v) ==
  IF HasAttr(el, name)
  THEN [el EXCEPT !.attrs = [k \in 1..Len(el.attrs) |->
                               IF el.attrs[k].n = name THEN [n |-> name, v |-> v] ELSE el.attrs[k]]]
  ELSE [el EXCEPT !.attrs = Append(@, [n |-> name, v |-> v])]

\* lines 309-332: the image's source is replaced, a timer of 50 ms is set (the
\* agent's setTimeout hook records string arguments only)
RECURSIVE Step4Els(_, _)
Step4Els(pg, e) ==
  IF e > Len(pg.dom) THEN pg
  ELSE
    With(pg.dom[e], LAMBDA el :
    IF el.tag = S_img /\ HasAttr(el, S_onerror)
    THEN Step4Els(xssLog([pg EXCEPT !.dom[e] = SetAttr(el, S_src, S_invalid_url),
                                    !.timers = Append(@, e)],
                         S_forced \o Upper(el.tag)),
                  e + 1)
    ELSE Step4Els(pg, e + 1))

\* lines 335-353: href.trim().match(/^javascript:(.*)$/i)
IsJsHref(href) ==
  /\ StartsAt(Lower(Trim(href)), S_javascript_colon, 1)
  /\ "\n" \notin Range(Trim(href))

RECURSIVE Step5Els(_, _)
Step5Els(pg, e) ==
  IF e > Len(pg.dom) THEN pg
  ELSE
    With(pg.dom[e], LAMBDA el :
    With(GetAttr(el, S_href), LAMBDA href :
       IF el.tag = S_a /\ HasAttr(el, S_href) /\ IsJsHref(href)
       THEN With(From(Trim(href), Len(S_javascript_colon) + 1), LAMBDA js :
            With(NewFunction(xssLog(pg, S_exec_href \o Trunc(js, 100)), js), LAMBDA a :
              Step5Els(IF Compiles(js) THEN RunCode(a, js) ELSE a, e + 1)))
       ELSE Step5Els(pg, e + 1)))

\* a driver that does nothing: what C7 rules out
IdleDriver(pg) == pg

\* lines 203-358: the whole driver, guarded by its one-shot marker
IMPROVED_AUTO_CLICK(pg) ==
  IF pg.marker THEN xssLog(pg, S_skip)
  ELSE
    With(xssLog([pg EXCEPT !.marker = TRUE], S_started), LAMBDA p0 :
    With(Step1Attrs([pg |-> xssLog(p0, S_exec_inline), n |-> 0], 1), LAMBDA s1 :
    With(IF s1.n = 0
         THEN Step2Els(xssLog(s1.pg, S_special), WithAttr(s1.pg.dom, S_ondblclick), 1)
         ELSE s1.pg, LAMBDA p2 :
    With(Step3Els(xssLog(p2, S_dispatching), 1), LAMBDA p3 :
    With(Step4Els(xssLog(p3, S_triggering), 1), LAMBDA p4 :
    With(Step5Els(xssLog(p4, S_exec_hrefs), 1), LAMBDA p5 :
      xssLog(p5, S_completed \o NumStr(s1.n))))))))

(***************************************************************************)
(* Preprocessing and the documents of the variants                         *)
(***************************************************************************)
\* json.dumps on one character of the model's alphabet
JsonChar(c) ==
  IF c = DQ THEN <<"\\", DQ>>
  ELSE IF c = "\\" THEN <<"\\", "\\">>
  ELSE IF c = "\n" THEN <<"\\", "n">>
  ELSE IF c = "\t" THEN <<"\\", "t">>
  ELSE IF c = "\r" THEN <<"\\", "r">>
  ELSE <<c>>

RECURSIVE JsonRun(_, _, _)
JsonRun(s, a, b) ==
  IF a >= b THEN <<>>
  ELSE IF a + 1 = b THEN JsonChar(s[a])
  ELSE LET m == (a + b) \div 2 IN JsonRun(s, a, m) \o JsonRun(s, m, b)

\* lines 416-418: json.dumps(s), a quoted JavaScript string literal
js_string_literal(s) == <<DQ>> \o JsonRun(s, 1, Len(s) + 1) \o <<DQ>>

\* the character an escape of a JavaScript string literal stands for
JsEscaped(c) ==
  IF c = "n" THEN "\n" ELSE IF c = "t" THEN "\t" ELSE IF c = "r" THEN "\r" ELSE c

\* the value the script engine gives a string literal's body from position i on
RECURSIVE JsBody(_, _)
JsBody(s, i) ==
  LET b == FirstPos(s, i, In({"\\"})) IN
  IF b >= Len(s) THEN Slice(s, i, Len(s) + 1)
  ELSE Slice(s, i, b) \o <<JsEscaped(s[b + 1])>> \o JsBody(s, b + 2)

\* the value of a quoted string literal
JsValue(lit) == JsBody(SubSeq(lit, 2, Len(lit) - 1), 1)

\* html.unescape: the character references of the model's alphabet, with or
\* without the semicolon for the names html5 lists without it
UnescapeNames ==
  <<S_amp, S_lt, S_gt, S_quot, S_apos,
    <<"&","a","m","p">>, <<"&","l","t">>, <<"&","g","t">>, <<"&","q","u","o","t">>,
    <<"&","#","3","9">>, <<"&","a","p","o","s",";">>>>

UnescapeChar == <<"&", "<", ">", DQ, SQ, "&", "<", ">", DQ, SQ, SQ>>

RECURSIVE UnescapeFrom(_, _)
UnescapeFrom(s, i) ==
  LET a == FirstPos(s, i, In({"&"})) IN
  IF a > Len(s) THEN Slice(s, i, Len(s) + 1)
  ELSE
    LET hit == {e \in 1..Len(UnescapeNames) : StartsAt(s, UnescapeNames[e], a)} IN
    IF hit = {} THEN Slice(s, i, a + 1) \o UnescapeFrom(s, a + 1)
    ELSE LET e == SetMin(hit) IN
         Slice(s, i, a) \o <<UnescapeChar[e]>> \o UnescapeFrom(s, a + Len(UnescapeNames[e]))

\* lines 421-434
fix_escaped_html(html) == UnescapeFrom(html, 1)

\* r'<td[^>]*>' and r'<tr[^>]*>' and r'<table[^>]*>' (re.I)
RE_td == <<LitI(<<"<","t","d">>) \o Star(NotGt) \o Lit(<<">">>)>>
RE_tr == <<LitI(<<"<","t","r">>) \o Star(NotGt) \o Lit(<<">">>)>>
RE_table == <<LitI(<<"<","t","a","b","l","e">>) \o Star(NotGt) \o Lit(<<">">>)>>

\* '<table><tr>'
S_table_tr_open ==
  <<"<","t","a","b","l","e",">","<","t","r",">">>

\* '</tr></table>'
S_tr_table_close ==
  <<"<","/","t","r",">","<","/","t","a","b","l","e",">">>

\* '<table>'
S_table_open ==
  <<"<","t","a","b","l","e",">">>

\* '</table>'
S_table_close ==
  <<"<","/","t","a","b","l","e",">">>

\* lines 437-479.  The texts of the model have no grave accent, so the search
\* for a fenced block (line 447) finds none and the whole text is the code.
unwrap_and_escape_code_fences(model_output) ==
  With(fix_escaped_html(model_output), LAMBDA html_code :
  With(IF Search(RE_td, html_code) /\ ~Search(RE_table, html_code)
       THEN S_table_tr_open \o html_code \o S_tr_table_close
       ELSE html_code, LAMBDA w1 :
    IF Search(RE_tr, w1) /\ ~Search(RE_table, w1)
    THEN S_table_open \o w1 \o S_table_close
    ELSE w1))

\* lines 481-530: the document of the baseline template.  The document is kept
\* by its parts: whether a policy is in its head, the literal embedded in the
\* insertion script (three times: document.write, innerHTML, textContent), and
\* whether the broken-image script and the driver follow in the same script.
render_html_baseline(model_html, csp_meta, force_broken_img, auto_click) ==
  [kind |-> "baseline",
   csp |-> csp_meta,
   html_js |-> js_string_literal(unwrap_and_escape_code_fences(model_html)),
   force_broken_img |-> force_broken_img,
   auto_click |-> auto_click]

\* lines 532-577: the document of the DOMPurify template (the literal is
\* embedded once, the library comes from a script element of the head)
render_html_dompurify(model_html, csp_meta, force_broken_img, auto_click) ==
  [kind |-> "dompurify",
   csp |-> csp_meta,
   html_js |-> js_string_literal(unwrap_and_escape_code_fences(model_html)),
   force_broken_img |-> force_broken_img,
   auto_click |-> auto_click]

(***************************************************************************)
(* The browser loading a document                                          *)
(***************************************************************************)
\* the literal holds the end of a script element: the parser ends the insertion
\* script there, the script does not compile, and what follows is markup
CutsScript(doc) == ScriptEnd(doc.html_js, 1) # 0

\* the markup the parser then reads: the rest of the first copy of the literal
\* and, in the baseline template, the two further copies
CutStream(doc) ==
  LET e == ScriptEnd(doc.html_js, 1)
      rest == From(doc.html_js, FirstPos(doc.html_js, e, In({">"})) + 1)
  IN IF doc.kind = "baseline"
     THEN rest \o <<" ">> \o doc.html_js \o <<" ">> \o doc.html_js
     ELSE rest

\* lines 489-493: every image gets a source that cannot load
RECURSIVE ForceBroken(_, _)
ForceBroken(pg, e) ==
  IF e > Len(pg.dom) THEN pg
  ELSE ForceBroken(IF pg.dom[e].tag = S_img
                   THEN [pg EXCEPT !.dom[e] = SetAttr(pg.dom[e], S_src, S_broken_url)]
                   ELSE pg,
                   e + 1)

\* page.set_content: the document replaces the page's document; the window and
\* its globals are the page's.  Under the policy script-src 'none' no inline
\* script runs: neither the agent, nor the insertion script, nor the driver.
LoadDocument(pg0, doc) ==
  With([pg0 EXCEPT !.csp = doc.csp, !.dom = <<>>, !.timers = <<>>], LAMBDA pg :
  IF doc.csp
  THEN IF CutsScript(doc) THEN InsertNodes(pg, DomParse(CutStream(doc)), 1) ELSE pg
  ELSE
    With(AGENT_SCRIPT(pg), LAMBDA a :
    IF CutsScript(doc) THEN InsertNodes(a, DomParse(CutStream(doc)), 1)
    ELSE IF doc.kind = "baseline"
    THEN With(InsertNodes(a, DomParse(JsValue(doc.html_js)), 1), LAMBDA c :
         With(IF doc.force_broken_img THEN ForceBroken(c, 1) ELSE c, LAMBDA b :
           IF doc.auto_click THEN IMPROVED_AUTO_CLICK(b) ELSE b))
    ELSE a))

\* what happens in the page while the pipeline waits: the driver's timers
\* dispatch the error event on their image, and the images whose source cannot
\* load get the browser's own error event
RECURSIVE FireTimers(_, _)
FireTimers(pg, k) ==
  IF k > Len(pg.timers) THEN [pg EXCEPT !.timers = <<>>]
  ELSE FireTimers(RunHandler(pg, pg.dom[pg.timers[k]], S_onerror), k + 1)

RECURSIVE NativeErrors(_, _)
NativeErrors(pg, e) ==
  IF e > Len(pg.dom) THEN pg
  ELSE NativeErrors(IF pg.dom[e].tag = S_img /\ HasAttr(pg.dom[e], S_src)
                    THEN RunHandler(pg, pg.dom[e], S_onerror) ELSE pg,
                    e + 1)

Settle(pg) == NativeErrors(FireTimers(pg, 1), 1)

\* a fresh page of a fresh context
NewPage(t) ==
  [open |-> TRUE, agent |-> FALSE, hooks |-> {}, unhookable |-> {}, log |-> <<>>,
   xss_executed |-> FALSE, marker |-> FALSE, csp |-> FALSE, dom |-> <<>>, timers |-> <<>>, t |-> t]

(***************************************************************************)
(* render_and_detect: the classifier                                       *)
(***************************************************************************)
\* line 594
instrumentMarkers ==
  <<S_utilityscript, S_playwright, S_puppeteer, S_webdriver, S_chromium, S_electron>>

\* lines 595-600
allowed_exec_types ==
  {"alert", "confirm", "prompt", "eval", "Function",
   "setTimeout_string", "setInterval_string",
   "setTimeout_function", "setInterval_function",
   "onprop_call", "event_listener"}

\* lines 663-676: the patterns of execution_indicators
execution_indicators ==
  <<<<"a","l","e","r","t","(">>,
    <<"c","o","n","f","i","r","m","(">>,
    <<"p","r","o","m","p","t","(">>,
    <<"e","v","a","l","(">>,
    <<"f","u","n","c","t","i","o","n">>,
    <<"s","e","t","t","i","m","e","o","u","t">>,
    <<"s","e","t","i","n","t","e","r","v","a","l">>,
    <<"d","o","c","u","m","e","n","t",".","c","o","o","k","i","e">>,
    <<"l","o","c","a","l","s","t","o","r","a","g","e">>,
    <<"s","e","s","s","i","o","n","s","t","o","r","a","g","e">>,
    <<"x","m","l","h","t","t","p","r","e","q","u","e","s","t">>,
    <<"f","e","t","c","h","(">>>>

\* Python's None, and a value that is present
None == <<>>
Some(x) == <<x>>

(***************************************************************************)
(* A harvested entry is what page.evaluate hands back for one element of   *)
(* the page's log: a list (has: how many of its items exist), a dict (has: *)
(* which keys exist) or another value (text: its str()).                   *)
(***************************************************************************)
ListKeys == <<"type", "snippet", "stack", "ts", "flag">>

\* the entry page.evaluate returns for an element the agent or the driver pushed
Harvested(e) ==
  [shape |-> "list", has |-> Range(ListKeys), type |-> e[1], snippet |-> e[2],
   stack |-> e[3], ts |-> e[4], flag |-> e[5], text |-> <<>>]

\* a normalisation that compares the stack with the markers as it is written,
\* without lowering it: what C2 rules out
NormaliseCaseSensitive(entry) ==
  LET stack == IF entry.shape \in {"list", "dict"} /\ "stack" \in entry.has THEN entry.stack ELSE <<>>
  IN [type |-> IF entry.shape \in {"list", "dict"} /\ "type" \in entry.has THEN entry.type ELSE "",
      snippet |-> IF entry.shape \in {"list", "dict"}
                  THEN (IF "snippet" \in entry.has THEN entry.snippet ELSE <<>>)
                  ELSE entry.text,
      stack |-> stack,
      timestamp |-> IF entry.shape \in {"list", "dict"} /\ "ts" \in entry.has
                    THEN Some(entry.ts) ELSE None,
      is_instrument |-> \E m \in 1..Len(instrumentMarkers) : Contains(stack, instrumentMarkers[m])]

\* lines 623-641, 643-647: one entry brought to the common form
Normalise(entry) ==
  LET typ == IF entry.shape \in {"list", "dict"} /\ "type" \in entry.has THEN entry.type ELSE ""
      snippet == IF entry.shape \in {"list", "dict"}
                 THEN (IF "snippet" \in entry.has THEN entry.snippet ELSE <<>>)
                 ELSE entry.text
      stack == IF entry.shape \in {"list", "dict"} /\ "stack" \in entry.has THEN entry.stack ELSE <<>>
      ts == IF entry.shape \in {"list", "dict"} /\ "ts" \in entry.has THEN Some(entry.ts) ELSE None
      stack_l == Lower(stack)
      is_instrument == \E m \in 1..Len(instrumentMarkers) : Contains(stack_l, instrumentMarkers[m])
  IN [type |-> typ, snippet |-> snippet, stack |-> stack, timestamp |-> ts,
      is_instrument |-> is_instrument]

\* lines 619-647: filtered_log
FilteredLog(raw) == <<>> \o [k \in 1..Len(raw) |-> Normalise(raw[k])]

\* a primary rule that trusts every origin: what C1 rules out
PrimaryHitAnyOrigin(fe) == fe.type \in allowed_exec_types

\* lines 649-651: the primary rule on one entry
PrimaryHit(fe) == fe.type \in allowed_exec_types /\ ~fe.is_instrument

\* a fallback scan that passes over the driver's diagnostic entries: what C29
\* rules out
FallbackHitSkipsDebug(fe) ==
  /\ fe.type # "debug"
  /\ ~fe.is_instrument
  /\ \E p \in 1..Len(execution_indicators) : Contains(Lower(fe.snippet), execution_indicators[p])

\* lines 655-681: the fallback scan on one entry
FallbackHit(fe) ==
  /\ ~fe.is_instrument
  /\ \E p \in 1..Len(execution_indicators) : Contains(Lower(fe.snippet), execution_indicators[p])

\* a classifier whose verdict is always true: what C9 rules out
AlwaysExecuted(raw) == [executed |-> TRUE, log |-> FilteredLog(raw)]

\* lines 619-683: executed_flag and filtered_log
Classified(raw) ==
  With(FilteredLog(raw), LAMBDA filtered_log :
    LET primary == \E k \in 1..Len(filtered_log) : PrimaryHit(filtered_log[k])
        executed_flag == IF primary THEN TRUE
                         ELSE \E k \in 1..Len(filtered_log) : FallbackHit(filtered_log[k])
    IN [executed |-> executed_flag, log |-> filtered_log])

(***************************************************************************)
(* compute_metrics.  A ratio is kept exactly, as a reduced fraction.       *)
(***************************************************************************)
Abs(x) == IF x < 0 THEN 0 - x ELSE x

RECURSIVE Gcd(_, _)
Gcd(a, b) == IF b = 0 THEN a ELSE Gcd(b, a % b)

\* what a division by zero leaves in place of a value: Python raises
\* ZeroDivisionError, and every computation the value enters raises with it
ZeroDivision == [num |-> 0, den |-> 0]

\* a / b
Frac(a, b) ==
  LET g == Gcd(Abs(a), Abs(b)) IN
  IF b = 0 THEN ZeroDivision
  ELSE IF b < 0 THEN [num |-> (0 - a) \div g, den |-> (0 - b) \div g]
  ELSE [num |-> a \div g, den |-> b \div g]

Num(k) == [num |-> k, den |-> 1]
RAdd(x, y) == Frac(x.num * y.den + y.num * x.den, x.den * y.den)
RSub(x, y) == Frac(x.num * y.den - y.num * x.den, x.den * y.den)
RMul(x, y) == Frac(x.num * y.num, x.den * y.den)
RDiv(x, y) == Frac(x.num * y.den, x.den * y.num)

\* a failed sample read as a sample with every flag set: what C30 rules out
TruthyOrFailed(r, key) ==
  \/ "error" \in DOMAIN r
  \/ /\ key \in DOMAIN r
     /\ IF key = "client_sanitized_executed"
        THEN r[key] # None /\ r[key][1]
        ELSE r[key]

\* r.get(key) as a truth value: a missing key and None are false
Truthy(r, key) ==
  /\ key \in DOMAIN r
  /\ IF key = "client_sanitized_executed"
     THEN r[key] # None /\ r[key][1]
     ELSE r[key]

\* sum(1 for r in results if P(r))
CountIf(results, P(_)) == Cardinality({k \in 1..Len(results) : P(results[k])})

\* sum over the results of r.get("vector_counts_raw", {})[name]
RECURSIVE SumVector(_, _, _)
SumVector(results, name, k) ==
  IF k > Len(results) THEN 0
  ELSE (IF "vector_counts_raw" \in DOMAIN results[k] THEN results[k].vector_counts_raw[name] ELSE 0)
       + SumVector(results, name, k + 1)

\* the order in which detect_vectors writes its keys
FamilyOrder ==
  <<"script_tag", "on_attr", "javascript_href", "iframe_srcdoc", "data_src",
    "svg_onload", "meta_refresh", "on_attr_any">>

\* line 927: the five first keys of the counts sorted by falling count (the sort
\* is stable), with their counts
TopVectors(agg) ==
  LET at == [name \in DOMAIN agg |-> CHOOSE k \in 1..Len(FamilyOrder) : FamilyOrder[k] = name]
      before(a, b) == agg[a] > agg[b] \/ (agg[a] = agg[b] /\ at[a] < at[b])
      rank == [name \in DOMAIN agg |-> Cardinality({m \in DOMAIN agg : before(m, name)})]
  IN [name \in {m \in DOMAIN agg : rank[m] < 5} |-> agg[name]]

\* sum(agg_vectors.values())
RECURSIVE SumValues(_, _)
SumValues(agg, k) ==
  IF k > Len(FamilyOrder) THEN 0
  ELSE (IF FamilyOrder[k] \in DOMAIN agg THEN agg[FamilyOrder[k]] ELSE 0) + SumValues(agg, k + 1)

\* lines 919-922: in how many potentially executable results a reason is given
ReasonCount(results, reason) ==
  Cardinality({k \in 1..Len(results) :
                 /\ Truthy(results[k], "potentially_executable")
                 /\ "potentially_executable_reasons" \in DOMAIN results[k]
                 /\ \E j \in 1..Len(results[k].potentially_executable_reasons) :
                      results[k].potentially_executable_reasons[j] = reason})

PotentialReasons(results) ==
  [reason \in {x \in {"on_attr", "script_tag", "javascript_href", "iframe_srcdoc"} :
                 ReasonCount(results, x) > 0} |-> ReasonCount(results, reason)]

MetricsWithPercentages(m) ==
  [k \in DOMAIN m \cup {"baseline_execution_percentage", "server_effectiveness_percentage",
                        "client_effectiveness_percentage", "overall_risk_reduction_percentage"} |->
     CASE k = "baseline_execution_percentage" -> RMul(m.execution_success_rate_baseline, Num(100))
       [] k = "server_effectiveness_percentage" -> RMul(m.server_protection_effectiveness, Num(100))
       [] k = "client_effectiveness_percentage" -> RMul(m.client_protection_effectiveness, Num(100))
       [] k = "overall_risk_reduction_percentage" -> RMul(m.overall_risk_reduction, Num(100))
       [] OTHER -> m[k]]

\* a ratio whose denominator is not looked at before the division
Unguarded(a, b, default) == Frac(a, b)

\* lines 885-905, 943, 984: a / b if b > 0 else default
Guarded(a, b, default) == IF b > 0 THEN Frac(a, b) ELSE default

\* the share of the baseline executions that the defended variant kept
ExecutionShare(defended, baseline) ==
  IF baseline > 0 THEN Frac(defended, baseline) ELSE Num(1)

\* lines 890-891: 1 - (defended / baseline) if baseline > 0 else 1.0
Effectiveness(defended, baseline) ==
  IF baseline > 0 THEN RSub(Num(1), Frac(defended, baseline)) ELSE Num(1)

\* the keys of the metrics whose values are ratios
RatioKeys ==
  {"execution_success_rate_baseline", "execution_success_rate_server",
   "execution_success_rate_client", "server_protection_effectiveness",
   "client_protection_effectiveness", "overall_risk_reduction", "defense_coverage_rate",
   "xss_detection_rate", "pattern_effectiveness_ratio", "sanitization_reduction_rate",
   "precision", "recall", "f1_score", "execution_to_pattern_ratio", "risk_score_baseline",
   "risk_score_after_defenses", "baseline_execution_percentage",
   "server_effectiveness_percentage", "client_effectiveness_percentage",
   "overall_risk_reduction_percentage"}

\* whether a division of compute_metrics raised
DivisionRaised(m) == \E k \in RatioKeys \cap DOMAIN m : m[k].den = 0

\* lines 865-993; the empty dict is the record without fields.  The latency
\* average is a measurement of the run and is left out.
compute_metrics(results) ==
  LET n == Len(results)
      Base(r) == Truthy(r, "baseline_executed")
      Serv(r) == Truthy(r, "server_sanitized_executed")
      Clie(r) == Truthy(r, "client_sanitized_executed")
      PatR(r) == Truthy(r, "xss_pattern_raw")
      PatS(r) == Truthy(r, "xss_pattern_sanitized")
      Pot(r) == Truthy(r, "potentially_executable")
      TP(r) == PatR(r) /\ Base(r)
      FP(r) == PatR(r) /\ ~Base(r)
      FN(r) == ~PatR(r) /\ Base(r)
      TN(r) == ~PatR(r) /\ ~Base(r)
      Cov(r) == Base(r) /\ (~Serv(r) \/ ~Clie(r))
      NoVec(r) == ~Base(r) /\ ~PatR(r)
      VecNot(r) == ~Base(r) /\ PatR(r)
      baseline_executed == CountIf(results, Base)
      server_executed == CountIf(results, Serv)
      client_executed == CountIf(results, Clie)
      xss_pattern_raw_count == CountIf(results, PatR)
      xss_pattern_sanitized_count == CountIf(results, PatS)
      true_positives == CountIf(results, TP)
      false_positives == CountIf(results, FP)
      false_negatives == CountIf(results, FN)
      true_negatives == CountIf(results, TN)
      precision == Guarded(true_positives, true_positives + false_positives, Num(0))
      recall == Guarded(true_positives, true_positives + false_negatives, Num(0))
      agg_vectors == IF \E k \in 1..n : "vector_counts_raw" \in DOMAIN results[k]
                     THEN [name \in Families |-> SumVector(results, name, 1)]
                     ELSE <<>>
  IN IF n = 0 THEN <<>>
     ELSE MetricsWithPercentages(
       [n_prompts |-> n,
        baseline_executions |-> baseline_executed,
        server_sanitized_executions |-> server_executed,
        client_sanitized_executions |-> client_executed,
        execution_success_rate_baseline |-> Guarded(baseline_executed, n, Num(0)),
        execution_success_rate_server |-> Guarded(server_executed, n, Num(0)),
        execution_success_rate_client |-> Guarded(client_executed, n, Num(0)),
        server_protection_effectiveness |-> Effectiveness(server_executed, baseline_executed),
        client_protection_effectiveness |-> Effectiveness(client_executed, baseline_executed),
        overall_risk_reduction |->
          IF baseline_executed > 0
          THEN RSub(Num(1), Frac(server_executed + client_executed, 2 * baseline_executed))
          ELSE Num(1),
        defense_coverage_rate |-> Guarded(CountIf(results, Cov), baseline_executed, Num(1)),
        xss_patterns_detected_raw |-> xss_pattern_raw_count,
        xss_patterns_after_sanitization |-> xss_pattern_sanitized_count,
        xss_detection_rate |-> Guarded(xss_pattern_raw_count, n, Num(0)),
        pattern_effectiveness_ratio |->
          Guarded(true_positives, xss_pattern_raw_count, Num(0)),
        sanitization_reduction_rate |->
          Guarded(xss_pattern_raw_count - xss_pattern_sanitized_count, xss_pattern_raw_count,
                  Num(0)),
        true_positives |-> true_positives,
        false_positives |-> false_positives,
        false_negatives |-> false_negatives,
        true_negatives |-> true_negatives,
        precision |-> precision,
        recall |-> recall,
        f1_score |->
          IF RAdd(precision, recall).num > 0
          THEN RDiv(RMul(Num(2), RMul(precision, recall)), RAdd(precision, recall))
          ELSE Num(0),
        total_vectors_detected |-> SumValues(agg_vectors, 1),
        top_vectors |-> TopVectors(agg_vectors),
        aggregated_vector_counts |-> agg_vectors,
        vector_categories |->
          LET all == [executed_with_vectors |-> baseline_executed,
                      vectors_not_executed |-> CountIf(results, VecNot),
                      no_vectors |-> CountIf(results, NoVec)]
          IN [k \in {x \in DOMAIN all : all[x] > 0} |-> all[k]],
        potentially_executable_cases |-> CountIf(results, Pot),
        potential_execution_reasons |-> PotentialReasons(results),
        execution_to_pattern_ratio |->
          Guarded(baseline_executed, xss_pattern_raw_count, Num(0)),
        risk_score_baseline |-> Guarded(baseline_executed, n, Num(0)),
        risk_score_after_defenses |->
          RDiv(RAdd(Guarded(server_executed, n, Num(0)), Guarded(client_executed, n, Num(0))),
               Num(2))])

(***************************************************************************)
(* Bounds and the inputs of the runs                                       *)
(***************************************************************************)
\* the largest n of main
MaxN == 2

\* how many times the environment departs from the plain course in one run:
\* an oracle or browser failure, a load timeout, a call made by the tooling
MaxFaults == 1

\* '<script>alert(1)</script>'
SampleScript ==
  <<"<","s","c","r","i","p","t",">","a","l","e","r","t","(","1",")","<","/","s","c","r","i","p","t",">">>

\* '<button onclick="alert(1)">Click</button>'
SampleButton ==
  <<"<","b","u","t","t","o","n"," ","o","n","c","l","i","c","k","=","\"","a","l","e","r","t","(","1",")","\"",">","C","l","i","c","k","<","/","b","u","t","t","o","n",">">>

\* '<b>hi</b>'
SampleSafe ==
  <<"<","b",">","h","i","<","/","b",">">>

\* the texts the model oracle answers with
Samples == {SampleScript, SampleButton, SampleSafe}

\* the arguments of main; fast mode ignores the other three
Configs ==
  {c \in [fast : BOOLEAN, do_dompurify : BOOLEAN, auto_click : BOOLEAN,
          force_broken_img : BOOLEAN] :
     c.fast => (c.do_dompurify /\ c.auto_click /\ ~c.force_broken_img)}

(***************************************************************************)
(* State                                                                   *)
(***************************************************************************)
VARIABLES
  cfg,          \* the arguments of main
  prompts,      \* the prompt list of the run
  i,            \* the position of the prompt in process
  pc,           \* where main / run_prompt_xss / render_and_detect stands
  output,       \* the model's text for the prompt in process
  result,       \* the result dict of the prompt in process
  results,      \* main's results
  variant,      \* the variant in render: "baseline", "server", "client"
  html_source,  \* the document handed to render_and_detect
  page,         \* the page of the browser session
  raw_log,      \* the harvested log
  ret,          \* what render_and_detect returns
  exc,          \* the exception in flight ("" when none)
  metrics,      \* what compute_metrics returned
  clock,        \* the time: every logged entry takes one tick
  faults,       \* the environment's departures so far
  runs,         \* how many times the driver was invoked in the page's document
  caught,       \* the exceptions render_and_detect caught in the render in process
  calls,        \* how many times chat was called for the prompt in process
  probe         \* the call a script of the page made into a hooked capability

vars ==
  <<cfg, prompts, i, pc, output, result, results, variant, html_source, page,
    raw_log, ret, exc, metrics, clock, faults, runs, caught, calls, probe>>

NoDoc ==
  [kind |-> "none", csp |-> FALSE, html_js |-> <<>>, force_broken_img |-> FALSE,
   auto_click |-> FALSE]

NoPage == [NewPage(0) EXCEPT !.open = FALSE]

NoRet == [executed |-> FALSE, log |-> <<>>]

\* no call was made
NoProbe == [fn |-> ""]

\* lines 852-863: n prompts; a prompt is kept by its position in the list
build_prompt_list(n) == <<>> \o [k \in 1..n |-> k]

\* lines 1040-1048: the arguments main passes to run_prompt_xss
Args ==
  IF cfg.fast
  THEN [do_dompurify |-> FALSE, force_broken_img |-> FALSE, auto_click |-> FALSE]
  ELSE [do_dompurify |-> cfg.do_dompurify, force_broken_img |-> cfg.force_broken_img,
        auto_click |-> cfg.auto_click]

\* d[k] = v on a dict
Put(d, k, v) == [x \in DOMAIN d \cup {k} |-> IF x = k THEN v ELSE d[x]]

\* line 743: the policy of the defended variants
csp_strict == TRUE

Init ==
  /\ cfg \in Configs
  /\ \E n \in 0..MaxN : prompts = build_prompt_list(n)
  /\ i = 0
  /\ pc = "main"
  /\ output = <<>>
  /\ result = <<>>
  /\ results = <<>>
  /\ variant = "none"
  /\ html_source = NoDoc
  /\ page = NoPage
  /\ raw_log = <<>>
  /\ ret = NoRet
  /\ exc = ""
  /\ metrics = <<>>
  /\ clock = 0
  /\ faults = 0
  /\ runs = 0
  /\ caught = {}
  /\ calls = 0
  /\ probe = NoProbe

\* an exception that leaves the browser of the render running
RaiseLeavesOpen(e) ==
  /\ faults < MaxFaults
  /\ faults' = faults + 1
  /\ exc' = e
  /\ page' = page
  /\ clock' = page.t
  /\ pc' = "except"

\* line 602: an exception leaves render_and_detect through the with block of
\* sync_playwright, whose exit stops playwright and with it the browser and its
\* context; the exception travels to main's handler
Raise(e) ==
  /\ faults < MaxFaults
  /\ faults' = faults + 1
  /\ exc' = e
  /\ page' = [page EXCEPT !.open = FALSE]
  /\ clock' = page.t
  /\ pc' = "except"

(***************************************************************************)
(* main and run_prompt_xss                                                 *)
(***************************************************************************)
\* lines 1037-1039, 703: the loop takes the next prompt, or ends
ForNext ==
  /\ pc = "main"
  /\ IF i < Len(prompts)
     THEN /\ i' = i + 1
          /\ result' = [prompt |-> prompts[i + 1]]
          /\ calls' = 0
          /\ pc' = "call_model"
     ELSE /\ pc' = "metrics"
          /\ UNCHANGED <<i, result, calls>>
  /\ UNCHANGED <<cfg, probe, caught, prompts, output, results, variant, html_source, page, raw_log, ret,
                 exc, metrics, clock, faults, runs>>

\* lines 397-413: chat is called with the options; a TypeError of that call is
\* caught and chat is called again without them; any other failure, and any
\* failure of the second call, leaves call_model.  ok tells whether a text was
\* returned, n how many times chat was called, f how many calls failed.
call_model(texts) ==
  {[ok |-> TRUE, text |-> t, n |-> 1, f |-> 0] : t \in texts}
    \cup {[ok |-> FALSE, text |-> <<>>, n |-> 1, f |-> 1]}
    \cup {[ok |-> TRUE, text |-> t, n |-> 2, f |-> 1] : t \in texts}
    \cup {[ok |-> FALSE, text |-> <<>>, n |-> 2, f |-> 2]}

\* lines 704-706: the text is stored, or the failure leaves run_prompt_xss.
\* The latency is a measurement that nothing later reads but its own average.
Called(texts) ==
  \E r \in call_model(texts) :
    /\ faults + r.f <= MaxFaults
    /\ faults' = faults + r.f
    /\ calls' = calls + r.n
    /\ IF r.ok
       THEN /\ output' = r.text
            /\ result' = Put(result, "model_output", r.text)
            /\ pc' = "baseline"
            /\ UNCHANGED <<exc, page, clock>>
       ELSE /\ exc' = "oracle"
            /\ page' = [page EXCEPT !.open = FALSE]
            /\ clock' = page.t
            /\ pc' = "except"
            /\ UNCHANGED <<output, result>>

CallModel ==
  /\ pc = "call_model"
  /\ Called(Samples)
  /\ UNCHANGED <<cfg, probe, caught, prompts, i, results, variant, html_source, raw_log, ret, metrics, runs>>

\* line 737
RenderBaseline ==
  /\ pc = "baseline"
  /\ html_source' = render_html_baseline(output, FALSE, Args.force_broken_img, Args.auto_click)
  /\ variant' = "baseline"
  /\ pc' = "launch"
  /\ UNCHANGED <<cfg, probe, caught, calls, prompts, i, output, result, results, page, raw_log, ret, exc, metrics,
                 clock, faults, runs>>

\* a baseline verdict that the static pattern flag can set: what C33 rules out
StoreBaselineByPattern ==
  /\ pc = "returned" /\ variant = "baseline"
  /\ result' = Put(Put(result, "baseline_executed", ret.executed \/ Search(XSS_RE, output)),
                   "baseline_log", ret.log)
  /\ html_source' = render_html_baseline(server_sanitize(output), csp_strict,
                                         Args.force_broken_img, Args.auto_click)
  /\ variant' = "server"
  /\ pc' = "launch"
  /\ UNCHANGED <<cfg, probe, caught, calls, prompts, i, output, results, page, raw_log, ret, exc, metrics, clock,
                 faults, runs>>

\* lines 738-745
StoreBaseline ==
  /\ pc = "returned" /\ variant = "baseline"
  /\ result' = Put(Put(result, "baseline_executed", ret.executed), "baseline_log", ret.log)
  /\ html_source' = render_html_baseline(server_sanitize(output), csp_strict,
                                         Args.force_broken_img, Args.auto_click)
  /\ variant' = "server"
  /\ pc' = "launch"
  /\ UNCHANGED <<cfg, probe, caught, calls, prompts, i, output, results, page, raw_log, ret, exc, metrics, clock,
                 faults, runs>>

\* lines 746-748: the server variant's entries of the result
ServerStored(r, sanitized, rt) ==
  Put(Put(Put(r, "server_sanitized_html", sanitized),
          "server_sanitized_executed", rt.executed),
      "server_sanitized_log", rt.log)

\* lines 746-759
StoreServer ==
  /\ pc = "returned" /\ variant = "server"
  /\ IF Args.do_dompurify
     THEN /\ result' = ServerStored(result, server_sanitize(output), ret)
          /\ html_source' = render_html_dompurify(output, csp_strict,
                                                  Args.force_broken_img, Args.auto_click)
          /\ variant' = "client"
          /\ pc' = "launch"
     ELSE /\ result' = Put(Put(ServerStored(result, server_sanitize(output), ret),
                               "client_sanitized_executed", None),
                           "client_sanitized_log", <<>>)
          /\ pc' = "analysis"
          /\ UNCHANGED <<html_source, variant>>
  /\ UNCHANGED <<cfg, probe, caught, calls, prompts, i, output, results, page, raw_log, ret, exc, metrics, clock,
                 faults, runs>>

\* lines 754-756
StoreClient ==
  /\ pc = "returned" /\ variant = "client"
  /\ result' = Put(Put(result, "client_sanitized_executed", Some(ret.executed)),
                   "client_sanitized_log", ret.log)
  /\ pc' = "analysis"
  /\ UNCHANGED <<cfg, probe, caught, calls, prompts, i, output, results, variant, html_source, page, raw_log, ret,
                 exc, metrics, clock, faults, runs>>

\* line 769: the families that make a sample potentially executable, in order
ReasonKeys == <<"on_attr", "script_tag", "javascript_href", "iframe_srcdoc">>

\* lines 762-774
Reasons(vectors) ==
  LET Hit(k) == vectors[k] > 0 IN SelectSeq(ReasonKeys, Hit)

Analysed(r, out) ==
  With(server_sanitize(out), LAMBDA sanitized :
  With(detect_vectors(out), LAMBDA raw :
  With(Reasons(raw), LAMBDA reasons :
    Put(Put(Put(Put(Put(Put(r, "vector_counts_raw", raw),
                            "vector_counts_sanitized", detect_vectors(sanitized)),
                        "xss_pattern_raw", Search(XSS_RE, out)),
                    "xss_pattern_sanitized", Search(XSS_RE, sanitized)),
                "potentially_executable", reasons # <<>> /\ ~r.baseline_executed),
        "potentially_executable_reasons", reasons))))

Analysis ==
  /\ pc = "analysis"
  /\ result' = Analysed(result, output)
  /\ pc' = "append"
  /\ UNCHANGED <<cfg, probe, caught, calls, prompts, i, output, results, variant, html_source, page, raw_log, ret,
                 exc, metrics, clock, faults, runs>>

\* lines 1041-1046: what fast mode writes over the result
FastOverrides(r) ==
  Put(Put(Put(Put(Put(r, "server_sanitized_html", <<>>),
                  "server_sanitized_executed", FALSE),
              "server_sanitized_log", <<>>),
          "client_sanitized_executed", None),
      "client_sanitized_log", <<>>)

\* lines 1040-1049, 1052
AppendResult ==
  /\ pc = "append"
  /\ results' = Append(results, IF cfg.fast THEN FastOverrides(result) ELSE result)
  /\ pc' = "main"
  /\ UNCHANGED <<cfg, probe, caught, calls, prompts, i, output, result, variant, html_source, page, raw_log, ret,
                 exc, metrics, clock, faults, runs>>

\* a handler that ends the loop at the first failure: what C5 rules out
ExceptAborts ==
  /\ pc = "except"
  /\ exc' = ""
  /\ pc' = "metrics"
  /\ UNCHANGED <<cfg, probe, caught, calls, prompts, i, output, result, results, variant, html_source, page, raw_log,
                 ret, metrics, clock, faults, runs>>

\* lines 1050-1052
Except ==
  /\ pc = "except"
  /\ results' = Append(results, [prompt |-> prompts[i], error |-> exc])
  /\ exc' = ""
  /\ pc' = "main"
  /\ UNCHANGED <<cfg, probe, caught, calls, prompts, i, output, result, variant, html_source, page, raw_log, ret,
                 metrics, clock, faults, runs>>

\* line 1066: the metrics are computed; a division by zero in them leaves main
ComputeMetrics ==
  /\ pc = "metrics"
  /\ IF DivisionRaised(compute_metrics(results))
     THEN /\ exc' = "ZeroDivisionError"
          /\ pc' = "raised"
          /\ UNCHANGED metrics
     ELSE /\ metrics' = compute_metrics(results)
          /\ pc' = "done"
          /\ UNCHANGED exc
  /\ UNCHANGED <<cfg, probe, caught, calls, prompts, i, output, result, results, variant, html_source, page,
                 raw_log, ret, clock, faults, runs>>

(***************************************************************************)
(* render_and_detect                                                       *)
(***************************************************************************)
\* the page of the render before, taken again: what C4 rules out
StalePage(t) == [page EXCEPT !.open = TRUE]

\* context.new_page() of a browser just launched
new_page(t) == NewPage(t)

\* lines 602-605: a browser, a context and a page are created for this render
Launch ==
  /\ pc = "launch"
  /\ \/ /\ page' = new_page(clock)
        /\ runs' = 0
        /\ caught' = {}
        /\ pc' = "set_content"
        /\ UNCHANGED <<exc, clock, faults>>
     \/ /\ Raise("launch")
        /\ UNCHANGED <<runs, caught>>
  /\ UNCHANGED <<cfg, probe, calls, prompts, i, output, result, results, variant, html_source, raw_log, ret,
                 metrics>>

\* the driver's invocations in a document just loaded
DriverRuns(doc) ==
  IF doc.kind = "baseline" /\ ~doc.csp /\ doc.auto_click /\ ~CutsScript(doc) THEN 1 ELSE 0

\* a load timeout after which the render gives up: the session is closed at
\* once and what was returned before is returned again
SetContentGivesUp ==
  /\ pc = "set_content"
  /\ \/ /\ page' = LoadDocument(page, html_source)
        /\ runs' = DriverRuns(html_source)
        /\ pc' = "wait"
        /\ UNCHANGED <<exc, clock, faults, caught>>
     \/ /\ faults < MaxFaults
        /\ faults' = faults + 1
        /\ \/ /\ page' = LoadDocument(page, html_source)
              /\ runs' = DriverRuns(html_source)
           \/ UNCHANGED <<page, runs>>
        /\ caught' = caught \cup {"PWTimeoutError"}
        /\ pc' = "close"
        /\ UNCHANGED <<exc, clock>>
     \/ /\ Raise("set_content")
        /\ UNCHANGED <<runs, caught>>
  /\ UNCHANGED <<cfg, probe, calls, prompts, i, output, result, results, variant, html_source, raw_log, ret,
                 metrics>>

\* lines 607-610: the document loads; or the load times out, which is caught,
\* with the document's scripts run or not; or set_content fails otherwise
SetContent ==
  /\ pc = "set_content"
  /\ \/ /\ page' = LoadDocument(page, html_source)
        /\ runs' = DriverRuns(html_source)
        /\ pc' = "wait"
        /\ UNCHANGED <<exc, clock, faults, caught>>
     \/ /\ faults < MaxFaults
        /\ faults' = faults + 1
        /\ \/ /\ page' = LoadDocument(page, html_source)
              /\ runs' = DriverRuns(html_source)
           \/ UNCHANGED <<page, runs>>
        /\ caught' = caught \cup {"PWTimeoutError"}
        /\ pc' = "wait"
        /\ UNCHANGED <<exc, clock>>
     \/ /\ Raise("set_content")
        /\ UNCHANGED <<runs, caught>>
  /\ UNCHANGED <<cfg, probe, calls, prompts, i, output, result, results, variant, html_source, raw_log, ret,
                 metrics>>

\* a hooked function of the page called by the automation tooling
AutomationCall(pg, stack) ==
  IF "eval" \in pg.hooks THEN push(pg, "eval", <<>>, stack) ELSE pg

\* line 612: three seconds pass; meanwhile the page settles, and the tooling may
\* call into the page
WaitForTimeout ==
  /\ pc = "wait"
  /\ \/ /\ page' = Settle(page)
        /\ pc' = "harvest"
        /\ UNCHANGED <<exc, clock, faults>>
     \/ /\ faults < MaxFaults
        /\ page.agent
        /\ faults' = faults + 1
        /\ \E stack \in AutomationStacks : page' = Settle(AutomationCall(page, stack))
        /\ pc' = "harvest"
        /\ UNCHANGED <<exc, clock>>
     \/ Raise("wait")
  /\ UNCHANGED <<cfg, probe, caught, calls, prompts, i, output, result, results, variant, html_source, raw_log, ret,
                 metrics, runs>>

Min(a, b) == IF a < b THEN a ELSE b

\* a harvest that takes the whole log of the page: what C28 rules out
HarvestWhole(pg) ==
  <<>> \o [k \in 1..Len(pg.log) |-> Harvested(pg.log[k])]

\* "() => (window.__xss_log || []).slice(0,500)"
HarvestOf(pg) ==
  <<>> \o [k \in 1..Min(500, Len(pg.log)) |-> Harvested(pg.log[k])]

\* a harvest whose failure leaves the log of the render before in place
HarvestKeepsLog ==
  /\ pc = "harvest"
  /\ \/ /\ raw_log' = HarvestOf(page)
        /\ UNCHANGED <<faults, caught>>
     \/ /\ faults < MaxFaults
        /\ faults' = faults + 1
        /\ caught' = caught \cup {"Exception"}
        /\ UNCHANGED raw_log
  /\ pc' = "classify"
  /\ UNCHANGED <<cfg, probe, calls, prompts, i, output, result, results, variant, html_source, page, ret,
                 exc, metrics, clock, runs>>

\* lines 614-617: the log is read from the page; a failure gives the empty log
Harvest ==
  /\ pc = "harvest"
  /\ \/ /\ raw_log' = HarvestOf(page)
        /\ UNCHANGED <<faults, caught>>
     \/ /\ faults < MaxFaults
        /\ faults' = faults + 1
        /\ caught' = caught \cup {"Exception"}
        /\ raw_log' = <<>>
  /\ pc' = "classify"
  /\ UNCHANGED <<cfg, probe, calls, prompts, i, output, result, results, variant, html_source, page, ret,
                 exc, metrics, clock, runs>>

\* lines 619-683
Classify ==
  /\ pc = "classify"
  /\ ret' = Classified(raw_log)
  /\ pc' = "close"
  /\ UNCHANGED <<cfg, probe, caught, calls, prompts, i, output, result, results, variant, html_source, page,
                 raw_log, exc, metrics, clock, faults, runs>>

\* a close that leaves the browser running: what C21 rules out
CloseLeavesOpen ==
  /\ pc = "close"
  /\ page' = page
  /\ clock' = page.t
  /\ pc' = "returned"
  /\ UNCHANGED <<cfg, probe, caught, calls, prompts, i, output, result, results, variant, html_source, raw_log, ret,
                 exc, metrics, faults, runs>>

\* lines 685-687
Close ==
  /\ pc = "close"
  /\ page' = [page EXCEPT !.open = FALSE]
  /\ clock' = page.t
  /\ pc' = "returned"
  /\ UNCHANGED <<cfg, probe, caught, calls, prompts, i, output, result, results, variant, html_source, raw_log, ret,
                 exc, metrics, faults, runs>>

Next ==
  \/ ForNext
  \/ CallModel
  \/ RenderBaseline
  \/ Launch
  \/ SetContent
  \/ WaitForTimeout
  \/ Harvest
  \/ Classify
  \/ Close
  \/ StoreBaseline
  \/ StoreServer
  \/ StoreClient
  \/ Analysis
  \/ AppendResult
  \/ Except
  \/ ComputeMetrics

Spec == Init /\ [][Next]_vars

(***************************************************************************)
(* The classifier on every harvested log (lines 619-687)                   *)
(***************************************************************************)
\* the longest harvested log of SpecClassify
MaxLogLen == 2

\* 'alert(1)'
S_alert_1 == S_alert_call \o <<"1", ")">>

\* main's default arguments (line 1026)
DefaultConfig ==
  [fast |-> FALSE, do_dompurify |-> TRUE, auto_click |-> TRUE, force_broken_img |-> FALSE]

\* what page.evaluate can hand back for one element of window.__xss_log: the
\* agent's and the driver's entries, entries logged under a call of the tooling,
\* and values of other shapes that script of the page put into the log
EntryPool ==
  {Harvested(<<"alert", <<"1">>, PageStack, 1, FALSE>>),
   Harvested(<<"alert", <<"1">>, UtilityStack, 1, TRUE>>),
   Harvested(<<"eval", S_alert_1, PlaywrightStack, 1, TRUE>>),
   Harvested(<<"agent_loaded", S_agent_active, PageStack, 1, FALSE>>),
   Harvested(<<"debug", S_executing \o S_onclick \o S_colon_sp \o S_alert_1, PageStack, 1, FALSE>>),
   Harvested(<<"debug", S_executing \o S_onclick \o S_colon_sp \o S_alert_1, UtilityStack, 1, TRUE>>),
   [shape |-> "list", has |-> {"type"}, type |-> "prompt", snippet |-> <<>>, stack |-> <<>>,
    ts |-> 0, flag |-> FALSE, text |-> <<>>],
   [shape |-> "dict", has |-> {"type", "stack"}, type |-> "confirm", snippet |-> <<>>,
    stack |-> PlaywrightStack, ts |-> 0, flag |-> FALSE, text |-> <<>>],
   [shape |-> "other", has |-> {}, type |-> "", snippet |-> <<>>, stack |-> <<>>,
    ts |-> 0, flag |-> FALSE, text |-> execution_indicators[12] \o <<")">>]}

RECURSIVE LogsUpTo(_)
LogsUpTo(n) ==
  IF n = 0 THEN {<<>>}
  ELSE LogsUpTo(n - 1) \cup {Append(l, e) : l \in {x \in LogsUpTo(n - 1) : Len(x) = n - 1},
                                            e \in EntryPool}

\* render_and_detect stands after line 617 with a harvested log
InitClassify ==
  /\ cfg = DefaultConfig
  /\ prompts = build_prompt_list(1)
  /\ i = 1
  /\ pc = "classify"
  /\ output = <<>>
  /\ result = [prompt |-> 1]
  /\ results = <<>>
  /\ variant = "baseline"
  /\ html_source = NoDoc
  /\ page = NewPage(0)
  /\ raw_log \in LogsUpTo(MaxLogLen)
  /\ ret = NoRet
  /\ exc = ""
  /\ metrics = <<>>
  /\ clock = 0
  /\ faults = 0
  /\ runs = 0
  /\ caught = {}
  /\ calls = 0
  /\ probe = NoProbe

NextClassify ==
  \/ Classify
  \/ Close

SpecClassify == InitClassify /\ [][NextClassify]_vars

\* the entry's stack text matches an automation signature (line 89, line 594)
AutomationSignature(entry) ==
  /\ entry.shape \in {"list", "dict"}
  /\ "stack" \in entry.has
  /\ Search(RE_instrument, entry.stack)

NoAutomationSignature(entry) == ~AutomationSignature(entry)

\* the returned entry k is no instrument entry and has a trusted type
TrustedAt(k) == ~ret.log[k].is_instrument /\ ret.log[k].type \in allowed_exec_types

\* the returned entry k is no instrument entry and its snippet has an indicator
IndicatedAt(k) ==
  /\ ~ret.log[k].is_instrument
  /\ \E p \in 1..Len(execution_indicators) :
       Contains(Lower(ret.log[k].snippet), execution_indicators[p])

\* C1: for every harvested log, the verdict is true exactly when an entry that is
\* classified as non-instrument has a trusted type or, when no such entry
\* exists, has a snippet with a fallback indicator; every harvested entry,
\* the instrument ones included, is in the returned log.
C1_Verdict ==
  pc = "close" =>
    /\ Len(ret.log) = Len(raw_log)
    /\ \A k \in 1..Len(raw_log) : AutomationSignature(raw_log[k]) => ret.log[k].is_instrument
    /\ ret.executed <=>
         \E k \in 1..Len(ret.log) :
           \/ TrustedAt(k)
           \/ (~\E j \in 1..Len(ret.log) : TrustedAt(j)) /\ IndicatedAt(k)

\* a log whose verdict the fallback scan decides, next to an instrument entry of
\* a trusted type
C1_Witness ==
  /\ pc = "close"
  /\ ret.executed
  /\ \E k \in 1..Len(ret.log) : ret.log[k].is_instrument /\ ret.log[k].type \in allowed_exec_types
  /\ ~\E j \in 1..Len(ret.log) : TrustedAt(j)

\* C2: an entry whose stack matches an automation signature, in any case of the
\* letters, never makes the verdict true: the verdict is that of the log without
\* these entries, and a log of such entries only has the verdict false.
C2_AutomationNeverFlips ==
  pc = "close" =>
    /\ ret.executed = Classified(SelectSeq(raw_log, NoAutomationSignature)).executed
    /\ (\A k \in 1..Len(raw_log) : AutomationSignature(raw_log[k])) => ~ret.executed

\* a log of automation entries only, one of a trusted type and one whose snippet
\* has an indicator, with the verdict false
C2_Witness ==
  /\ pc = "close"
  /\ ~ret.executed
  /\ Len(raw_log) = 2
  /\ \A k \in 1..Len(raw_log) : AutomationSignature(raw_log[k])
  /\ \E k \in 1..Len(raw_log) : raw_log[k].type \in allowed_exec_types
  /\ \E k \in 1..Len(raw_log) : raw_log[k].type = "debug"

(***************************************************************************)
(* The trigger driver invoked in a loaded document (lines 192-360)         *)
(***************************************************************************)
\* how many times the driver is invoked in one document
MaxRuns == 3

\* '<img src=x onerror=alert(1)>'
SampleImg ==
  <<"<","i","m","g"," ","s","r","c","=","x"," ","o","n","e","r","r","o","r","=","a","l","e","r","t","(","1",")",">">>

\* '<a href="javascript:alert(1)">x</a>'
SampleLink ==
  <<"<","a"," ","h","r","e","f","=","\"","j","a","v","a","s","c","r","i","p","t",":","a","l","e","r","t","(","1",")","\"",">","x","<","/","a",">">>

\* '<td ondblclick="alert(1)">x</td>'
SampleCell ==
  <<"<","t","d"," ","o","n","d","b","l","c","l","i","c","k","=","\"","a","l","e","r","t","(","1",")","\"",">","x","<","/","t","d",">">>

\* '<form onsubmit="alert(1)"></form>'
SampleForm ==
  <<"<","f","o","r","m"," ","o","n","s","u","b","m","i","t","=","\"","a","l","e","r","t","(","1",")","\"",">","<","/","f","o","r","m",">">>

\* '<input onfocus=alert(1)>'
SampleInput ==
  <<"<","i","n","p","u","t"," ","o","n","f","o","c","u","s","=","a","l","e","r","t","(","1",")",">">>

\* the candidates of the documents the driver is invoked in
DriverSamples ==
  {SampleScript, SampleButton, SampleSafe, SampleImg, SampleLink, SampleCell, SampleForm,
   SampleInput}

\* render_and_detect stands after line 605, with a baseline document without
\* policy and a fresh page
InitDriver ==
  /\ cfg = DefaultConfig
  /\ prompts = build_prompt_list(1)
  /\ i = 1
  /\ pc = "set_content"
  /\ output \in DriverSamples
  /\ result = [prompt |-> 1, model_output |-> output]
  /\ results = <<>>
  /\ variant = "baseline"
  /\ \E fb \in BOOLEAN, ac \in BOOLEAN : html_source = render_html_baseline(output, FALSE, fb, ac)
  /\ page = NewPage(0)
  /\ raw_log = <<>>
  /\ ret = NoRet
  /\ exc = ""
  /\ metrics = <<>>
  /\ clock = 0
  /\ faults = 0
  /\ runs = 0
  /\ caught = {}
  /\ calls = 0
  /\ probe = NoProbe

\* the driver's script is run in the page's document (once more, when the
\* document ran it while loading)
RunDriver ==
  /\ pc = "wait"
  /\ page.open /\ ~page.csp
  /\ runs < MaxRuns
  /\ page' = IMPROVED_AUTO_CLICK(page)
  /\ runs' = runs + 1
  /\ UNCHANGED <<cfg, probe, caught, calls, prompts, i, pc, output, result, results, variant, html_source, raw_log,
                 ret, exc, metrics, clock, faults>>

NextDriver ==
  \/ SetContent
  \/ RunDriver

SpecDriver == InitDriver /\ [][NextDriver]_vars

\* C3: an invocation of the driver in a document in which it was invoked before
\* leaves the number of entries of the page's log as it is.
C3_SecondRunKeepsLog ==
  [][(runs >= 1 /\ runs' = runs + 1) => Len(page'.log) = Len(page.log)]_vars

(***************************************************************************)
(* One sample whose text is any text over a small vocabulary               *)
(***************************************************************************)
\* the longest text, in pieces of the vocabulary
MaxAtoms == 3

\* 'on', '<x>', 'click=1', ' ', '&lt;x&gt;'
Atoms ==
  {<<"o","n">>,
   <<"<","x",">">>,
   <<"c","l","i","c","k","=","1">>,
   <<" ">>,
   <<"&","l","t",";","x","&","g","t",";">>}

RECURSIVE TextsUpTo(_)
TextsUpTo(n) ==
  IF n = 0 THEN {<<>>}
  ELSE TextsUpTo(n - 1) \cup {t \o a : t \in TextsUpTo(n - 1), a \in Atoms}

\* main has taken the one prompt of the run
InitText ==
  /\ cfg = DefaultConfig
  /\ prompts = build_prompt_list(1)
  /\ i = 1
  /\ pc = "call_model"
  /\ output = <<>>
  /\ result = [prompt |-> 1]
  /\ results = <<>>
  /\ variant = "none"
  /\ html_source = NoDoc
  /\ page = NoPage
  /\ raw_log = <<>>
  /\ ret = NoRet
  /\ exc = ""
  /\ metrics = <<>>
  /\ clock = 0
  /\ faults = 0
  /\ runs = 0
  /\ caught = {}
  /\ calls = 0
  /\ probe = NoProbe

\* lines 704-706: the oracle answers with a text over the vocabulary
CallModelText ==
  /\ pc = "call_model"
  /\ \E out \in TextsUpTo(MaxAtoms) :
       /\ output' = out
       /\ result' = Put(result, "model_output", out)
  /\ calls' = calls + 1
  /\ pc' = "baseline"
  /\ UNCHANGED <<cfg, probe, caught, prompts, i, results, variant, html_source, page, raw_log, ret, exc,
                 metrics, clock, faults, runs>>

NextText ==
  \/ ForNext
  \/ CallModelText
  \/ RenderBaseline
  \/ Launch
  \/ SetContent
  \/ WaitForTimeout
  \/ Harvest
  \/ Classify
  \/ Close
  \/ StoreBaseline
  \/ StoreServer
  \/ StoreClient
  \/ Analysis
  \/ AppendResult
  \/ Except
  \/ ComputeMetrics

SpecText == InitText /\ [][NextText]_vars

\* C10: for every text and every family of detect_vectors, the count on the
\* sanitized text is at most the count on the text.
C10_SanitizedCountsNotHigher ==
  pc = "append" =>
    \A name \in Families : result.vector_counts_sanitized[name] <= result.vector_counts_raw[name]

(***************************************************************************)
(* Properties of the whole run                                             *)
(***************************************************************************)
\* the timestamps of the entries of a returned log
Stamps(log) == {log[k].timestamp : k \in 1..Len(log)}

\* the logs the result holds of the variants rendered before
EarlierStamps ==
  (IF "baseline_log" \in DOMAIN result THEN Stamps(result.baseline_log) ELSE {})
    \cup (IF "server_sanitized_log" \in DOMAIN result THEN Stamps(result.server_sanitized_log) ELSE {})

\* C4: every variant is rendered in a page just created: when the document is
\* about to be loaded the page has no log, no agent, no marker of the driver
\* and no document, and no entry of the log a defended variant's render
\* returns is an entry of the log of a variant rendered before.
C4_FreshSession ==
  /\ pc = "set_content" => page = NewPage(clock)
  /\ (pc = "returned" /\ variant \in {"server", "client"}) => Stamps(ret.log) \cap EarlierStamps = {}

\* the server variant about to load, after a baseline render in which the driver
\* ran and entries were logged
C4_Witness ==
  /\ pc = "set_content"
  /\ variant = "server"
  /\ html_source.auto_click
  /\ Len(result.baseline_log) > 1
  /\ result.baseline_executed
  /\ ~page.marker

\* C5: a failure while a prompt is processed does not end the run: the prompt
\* gets a result of prompt and error only, the loop goes on, and at the end
\* there is one result per prompt, in the order of the prompts.
C5_BatchContinues ==
  /\ pc = "main" => Len(results) = i
  /\ pc \in {"metrics", "done"} => Len(results) = Len(prompts)
  /\ \A k \in 1..Len(results) :
       /\ results[k].prompt = prompts[k]
       /\ "error" \in DOMAIN results[k] => DOMAIN results[k] = {"prompt", "error"}

\* a finished run of two prompts whose first failed and whose second went through
C5_Witness ==
  /\ pc = "done"
  /\ Len(results) = 2
  /\ "error" \in DOMAIN results[1]
  /\ "error" \notin DOMAIN results[2]
  /\ "baseline_executed" \in DOMAIN results[2]

\* the results without their error marks
ErrorsErased(rs) ==
  <<>> \o [k \in 1..Len(rs) |-> [f \in DOMAIN rs[k] \ {"error"} |-> rs[k][f]]]

\* C6: the metrics of a run in which a sample failed expose the failure: they
\* are not the metrics of the same results without their error marks.
C6_FailuresCounted ==
  (pc = "done" /\ \E k \in 1..Len(results) : "error" \in DOMAIN results[k])
    => metrics # compute_metrics(ErrorsErased(results))

\* C7: the button with an onclick handler that calls alert, rendered as the raw
\* candidate in a render the environment does not disturb: the verdict is
\* true with the driver in the document and false without it.
C7_ButtonNeedsDriver ==
  (pc = "returned" /\ variant = "baseline" /\ output = SampleButton /\ faults = 0)
    => (ret.executed <=> html_source.auto_click)

\* the button's baseline render with the driver, and the verdict true
C7_Witness ==
  /\ pc = "returned" /\ variant = "baseline" /\ output = SampleButton /\ faults = 0
  /\ html_source.auto_click
  /\ ret.executed
  /\ \E k \in 1..Len(ret.log) : ret.log[k].type = "Function"

\* C8: the script element that calls alert, rendered as the raw candidate in a
\* render the environment does not disturb: the verdict is true and the
\* returned log has an entry of type alert that is no instrument entry.
C8_ScriptExecutes ==
  (pc = "returned" /\ variant = "baseline" /\ output = SampleScript /\ faults = 0)
    => /\ ret.executed
       /\ \E k \in 1..Len(ret.log) : ret.log[k].type = "alert" /\ ~ret.log[k].is_instrument

\* the script sample's baseline render without the driver
C8_Witness ==
  /\ pc = "returned" /\ variant = "baseline" /\ output = SampleScript /\ faults = 0
  /\ ~html_source.auto_click
  /\ ret.executed
  /\ Len(ret.log) >= 2

\* every result is a result of the script sample that went through
ScriptSampleOnly ==
  /\ results # <<>>
  /\ \A k \in 1..Len(results) :
       "model_output" \in DOMAIN results[k] /\ results[k].model_output = SampleScript

\* C9: the script sample's server variant has the verdict false, and the
\* metrics over results of that sample have server_protection_effectiveness 1.
C9_ServerProtects ==
  /\ (pc = "returned" /\ variant = "server" /\ output = SampleScript) => ~ret.executed
  /\ (pc = "done" /\ ScriptSampleOnly) => metrics.server_protection_effectiveness = Num(1)

\* a finished run over the script sample, executed in the baseline and not in
\* the server variant that was rendered
C9_Witness ==
  /\ pc = "done"
  /\ ScriptSampleOnly
  /\ ~cfg.fast
  /\ results[1].baseline_executed
  /\ ~results[1].server_sanitized_executed
  /\ metrics.baseline_executions = Len(results)

(***************************************************************************)
(* compute_metrics on every result sequence (lines 865-993)                *)
(***************************************************************************)
\* the longest result sequence
MaxResults == 2

\* '<script>onclick=1'
SampleMixed ==
  <<"<","s","c","r","i","p","t",">","o","n","c","l","i","c","k","=","1">>

\* the texts of the results
MetricTexts == {SampleScript, SampleSafe, SampleMixed}

\* lines 703-774: what run_prompt_xss returns for a text and the outcomes of
\* its three renders (cl is None when the client variant is not rendered)
ResultOf(k, text, b, sv, cl) ==
  Analysed(
    Put(Put(ServerStored(
              Put(Put([prompt |-> k, model_output |-> text], "baseline_executed", b),
                  "baseline_log", <<>>),
              server_sanitize(text), [executed |-> sv, log |-> <<>>]),
            "client_sanitized_executed", cl),
        "client_sanitized_log", <<>>),
    text)

InitMetrics ==
  /\ cfg = DefaultConfig
  /\ \E n \in 0..MaxResults : prompts = build_prompt_list(n)
  /\ i = 0
  /\ pc = "results"
  /\ output = <<>>
  /\ result = <<>>
  /\ results = <<>>
  /\ variant = "none"
  /\ html_source = NoDoc
  /\ page = NoPage
  /\ raw_log = <<>>
  /\ ret = NoRet
  /\ exc = ""
  /\ metrics = <<>>
  /\ clock = 0
  /\ faults = 0
  /\ runs = 0
  /\ caught = {}
  /\ calls = 0
  /\ probe = NoProbe

\* lines 1038-1052: the next prompt's result joins the results: a result of
\* run_prompt_xss, or the record of a failure
TakeResult ==
  /\ pc = "results"
  /\ i < Len(prompts)
  /\ i' = i + 1
  /\ \/ \E text \in MetricTexts, b \in BOOLEAN, sv \in BOOLEAN,
          cl \in {None, Some(FALSE), Some(TRUE)} :
          results' = Append(results, ResultOf(prompts[i + 1], text, b, sv, cl))
     \/ results' = Append(results, [prompt |-> prompts[i + 1], error |-> "oracle"])
  /\ UNCHANGED <<cfg, probe, caught, calls, prompts, pc, output, result, variant, html_source, page,
                 raw_log, ret, exc, metrics, clock, faults, runs>>

\* lines 1038, 1054: the loop is over
EndOfResults ==
  /\ pc = "results"
  /\ i = Len(prompts)
  /\ pc' = "metrics"
  /\ UNCHANGED <<cfg, probe, caught, calls, prompts, i, output, result, results, variant, html_source,
                 page, raw_log, ret, exc, metrics, clock, faults, runs>>

NextMetrics ==
  \/ TakeResult
  \/ EndOfResults
  \/ ComputeMetrics

SpecMetrics == InitMetrics /\ [][NextMetrics]_vars

\* in how many results the flag under a key is set
Flagged(key) ==
  Cardinality({k \in 1..Len(results) :
                 key \in DOMAIN results[k] /\ results[k][key] = TRUE})

\* in how many results the client variant executed
ClientExecutions ==
  Cardinality({k \in 1..Len(results) :
                 /\ "client_sanitized_executed" \in DOMAIN results[k]
                 /\ results[k].client_sanitized_executed = Some(TRUE)})

\* C11: compute_metrics raises no division error: the empty sequence gives the
\* empty result, and for every other sequence, one made only of failed samples
\* included, every ratio of the metrics is a value with a denominator above zero.
C11_NoDivisionError ==
  /\ pc # "raised"
  /\ pc = "done" =>
       IF results = <<>> THEN DOMAIN metrics = {}
       ELSE \A k \in RatioKeys : k \in DOMAIN metrics /\ metrics[k].den > 0

C11_Witness ==
  /\ pc = "done"
  /\ Len(results) = 2
  /\ \A k \in 1..2 : "error" \in DOMAIN results[k]
  /\ metrics.precision = Num(0)
  /\ metrics.defense_coverage_rate = Num(1)

\* a ratio e equals 1 - defended / baseline, and 1 when baseline is zero
IsEffectiveness(e, defended, baseline) ==
  IF baseline = 0 THEN e = [num |-> 1, den |-> 1]
  ELSE e.den > 0 /\ e.num * baseline = e.den * (baseline - defended)

\* C12: for every result sequence the effectiveness of the server variant and of
\* the client variant is 1 minus the variant's executions over the baseline's
\* executions, and 1 when the baseline never executed.
C12_Effectiveness ==
  (pc = "done" /\ results # <<>>) =>
    /\ IsEffectiveness(metrics.server_protection_effectiveness,
                       Flagged("server_sanitized_executed"), Flagged("baseline_executed"))
    /\ IsEffectiveness(metrics.client_protection_effectiveness,
                       ClientExecutions, Flagged("baseline_executed"))

C12_Witness ==
  /\ pc = "done"
  /\ Flagged("baseline_executed") = 2
  /\ metrics.server_protection_effectiveness = [num |-> 1, den |-> 2]
  /\ metrics.client_protection_effectiveness = [num |-> 0, den |-> 1]

\* the baseline-executing results in which a defended variant was rendered and
\* did not execute
Covered ==
  {k \in 1..Len(results) :
     /\ "baseline_executed" \in DOMAIN results[k] /\ results[k].baseline_executed
     /\ \/ /\ "server_sanitized_executed" \in DOMAIN results[k]
           /\ ~results[k].server_sanitized_executed
        \/ /\ "client_sanitized_executed" \in DOMAIN results[k]
           /\ results[k].client_sanitized_executed = Some(FALSE)}

\* C13: with at least one baseline-executing sample, defense_coverage_rate is the
\* fraction of the baseline-executing samples in which at least one defended
\* variant was rendered and did not execute.
C13_DefenseCoverage ==
  (pc = "done" /\ Flagged("baseline_executed") > 0) =>
    /\ metrics.defense_coverage_rate.den > 0
    /\ metrics.defense_coverage_rate.num * Flagged("baseline_executed")
         = metrics.defense_coverage_rate.den * Cardinality(Covered)

\* the sum of the results' vector counts under a key, over all the families
RECURSIVE TotalVectors(_, _, _)
TotalVectors(rs, key, k) ==
  IF k > Len(rs) THEN 0
  ELSE (IF key \in DOMAIN rs[k] THEN SumValues(rs[k][key], 1) ELSE 0)
       + TotalVectors(rs, key, k + 1)

\* C14: the sanitization reduction rate is computed over the aggregated vector
\* counts: it is the share of the raw texts' vector counts that the sanitized
\* texts' vector counts fall short of.
C14_ReductionOverVectorCounts ==
  (pc = "done" /\ results # <<>>) =>
    metrics.sanitization_reduction_rate =
      Guarded(TotalVectors(results, "vector_counts_raw", 1)
                - TotalVectors(results, "vector_counts_sanitized", 1),
              TotalVectors(results, "vector_counts_raw", 1), Num(0))

(***************************************************************************)
(* The order of preprocessing and sanitization (lines 742-746, 481-484)    *)
(***************************************************************************)
\* C15: in the server variant the preprocessing is applied once and before the
\* sanitizer: the document embeds the sanitizer's output for the preprocessed
\* text, and nothing preprocesses that output again.
C15_PreprocessedOnceBeforeSanitizer ==
  (pc = "launch" /\ variant = "server") =>
    html_source.html_js
      = js_string_literal(server_sanitize(unwrap_and_escape_code_fences(output)))

(***************************************************************************)
(* The session of a render and its failures (lines 602-687)                *)
(***************************************************************************)
\* where render_and_detect stands while its session is in use
InRender == {"set_content", "wait", "harvest", "classify", "close"}

\* C16: a render that opened a browser context leaves no session behind: once
\* render_and_detect has ended, by its return or by an exception raised while
\* the content is set or waited for, the page and its browser are closed.
C16_SessionClosed == pc \notin InRender => ~page.open

C16_Witness ==
  /\ pc = "except"
  /\ exc = "wait"
  /\ page.agent
  /\ page.log # <<>>
  /\ ~page.open

\* an entry that page code logged under an allowed type
PageExecution(pg) ==
  \E k \in 1..Len(pg.log) : pg.log[k][1] \in allowed_exec_types /\ pg.log[k][3] = PageStack

\* C17: a load timeout is not fatal: the render still waits on the page as the
\* timeout left it, harvests and classifies, and what page code logged before
\* the timeout counts toward executed.
C17_TimeoutNonFatal ==
  ("PWTimeoutError" \in caught /\ faults = 1) =>
    /\ exc = ""
    /\ pc \notin {"except", "raised"}
    /\ pc = "wait" =>
         /\ page.open
         /\ page \in {new_page(clock), LoadDocument(new_page(clock), html_source)}
    /\ pc = "returned" =>
         /\ ret = Classified(HarvestOf(page))
         /\ PageExecution(page) => ret.executed

C17_Witness ==
  /\ pc = "returned"
  /\ "PWTimeoutError" \in caught
  /\ faults = 1
  /\ PageExecution(page)
  /\ ret.executed

\* C18: a failed retrieval of the log is not raised: the log is taken as empty
\* and the render returns executed = false with an empty log.
C18_HarvestFailureIsEmptyLog ==
  ("Exception" \in caught /\ pc \in {"classify", "close", "returned"}) =>
    /\ raw_log = <<>>
    /\ exc = ""
    /\ pc \in {"close", "returned"} => ret = [executed |-> FALSE, log |-> <<>>]

C18_Witness ==
  /\ pc = "returned"
  /\ "Exception" \in caught
  /\ PageExecution(page)
  /\ ret = [executed |-> FALSE, log |-> <<>>]

\* C19: for a sample the oracle is called at most once, whatever the failure of
\* the call.
C19_OracleCalledOnce == calls <= 1

\* C20: in fast mode only the baseline variant is rendered: a browser session is
\* never opened for the server or the client variant.
C20_FastOnlyBaseline ==
  (cfg.fast /\ pc \in InRender \cup {"launch"}) => variant = "baseline"

(***************************************************************************)
(* The order of the sessions (lines 736-759, 1038-1052)                    *)
(***************************************************************************)

\* C21: the renders are strictly one after another: a browser is launched only
\* when no session is open; within a sample the variant in render goes from
\* the raw candidate to the server variant to the client variant, each after
\* the result of the one before is stored; and the next prompt is taken only
\* when no session is open.
C21_Sequential ==
  [][/\ (pc = "launch" /\ pc' = "set_content") => (~page.open /\ page'.open)
     /\ variant' # variant =>
          \/ pc = "baseline" /\ variant' = "baseline" /\ DOMAIN result = {"prompt", "model_output"}
          \/ /\ variant = "baseline" /\ variant' = "server"
             /\ "baseline_executed" \in DOMAIN result'
             /\ "server_sanitized_executed" \notin DOMAIN result'
          \/ /\ variant = "server" /\ variant' = "client"
             /\ "server_sanitized_executed" \in DOMAIN result'
             /\ "client_sanitized_executed" \notin DOMAIN result'
     /\ i' # i => ~page.open
     /\ (page.open /\ page'.open) => (i' = i /\ variant' = variant)]_vars

\* the client variant of the second prompt in session, after the three
\* sessions of the first prompt
C21_Witness ==
  /\ pc = "wait"
  /\ i = 2
  /\ variant = "client"
  /\ page.open
  /\ Len(results) = 1
  /\ "client_sanitized_log" \in DOMAIN results[1]
  /\ results[1].client_sanitized_executed # None

SampleInert ==
  <<"<","b"," ","o","n","c","l","i","c","k","=","\"","1","\"",">","x","<","/","b",">">>

\* '<button onclick="alert(\)">x</button>'
SampleBadButton ==
  <<"<","b","u","t","t","o","n"," ","o","n","c","l","i","c","k","=","\"","a","l","e","r","t","(","\\",")","\"",">","x","<","/","b","u","t","t","o","n",">">>

\* '<a href="javascript:alert(\)">x</a>'
SampleBadLink ==
  <<"<","a"," ","h","r","e","f","=","\"","j","a","v","a","s","c","r","i","p","t",":","a","l","e","r","t","(","\\",")","\"",">","x","<","/","a",">">>

\* '</script><img src=x onerror=alert(1)>'
SampleCut ==
  <<"<","/","s","c","r","i","p","t",">","<","i","m","g"," ","s","r","c","=","x"," ","o","n","e","r","r","o","r","=","a","l","e","r","t","(","1",")",">">>

\* '<function ondblclick>x</function>'
SampleOddTag ==
  <<"<","f","u","n","c","t","i","o","n"," ","o","n","d","b","l","c","l","i","c","k",">","x","<","/","f","u","n","c","t","i","o","n",">">>
\* the candidates of the sample
RenderSamples ==
  DriverSamples \cup {SampleInert, SampleBadButton, SampleBadLink, SampleCut, SampleOddTag}

\* run_prompt_xss stands after line 706 with the model's text
InitSample ==
  /\ cfg \in Configs
  /\ prompts = build_prompt_list(1)
  /\ i = 1
  /\ pc = "baseline"
  /\ output \in RenderSamples
  /\ result = [prompt |-> 1, model_output |-> output]
  /\ results = <<>>
  /\ variant = "none"
  /\ html_source = NoDoc
  /\ page = NoPage
  /\ raw_log = <<>>
  /\ ret = NoRet
  /\ exc = ""
  /\ metrics = <<>>
  /\ clock = 0
  /\ faults = 0
  /\ runs = 0
  /\ caught = {}
  /\ calls = 1
  /\ probe = NoProbe

NextSample ==
  \/ RenderBaseline
  \/ Launch
  \/ SetContent
  \/ WaitForTimeout
  \/ Harvest
  \/ Classify
  \/ Close
  \/ StoreBaseline
  \/ StoreServer
  \/ StoreClient

SpecSample == InitSample /\ [][NextSample]_vars

\* an entry the Function hook wrote: in the documents of the pipeline the
\* constructor is called by the driver only (lines 249, 344)
NotOfDriverInternals(entry) == entry.type # "Function"

\* C23: an event recorded because of the driver's own construction of a
\* function is classified as of instrument origin and does not count: the
\* verdict of the render is the verdict of its log without these events.
C23_DriverInternalsNeverCount ==
  pc = "close" =>
    /\ \A k \in 1..Len(ret.log) : ret.log[k].type = "Function" => ret.log[k].is_instrument
    /\ ret.executed = Classified(SelectSeq(raw_log, NotOfDriverInternals)).executed

(***************************************************************************)
(* The agent's hooks under calls of the page (lines 86-184)                *)
(***************************************************************************)
\* how many capabilities of a page cannot be replaced
MaxUnhookable == 1

\* the values a script of the page passes: a text, a function, an object
\* without a conversion to text (Object.create(null)), and the event a
\* handler is called with
ArgText == [kind |-> "text", text |-> <<"1">>]
ArgFunction == [kind |-> "function", text |-> <<>>]
ArgObject == [kind |-> "object", text |-> <<>>]
ArgEvent == [kind |-> "event", text |-> <<>>]

\* line 138: props, by the text of the name
PropText ==
  [p \in Range(AgentBlocks[5]) |->
     CASE p = "onclick" -> <<"o","n","c","l","i","c","k">>
          [] p = "ondblclick" -> <<"o","n","d","b","l","c","l","i","c","k">>
          [] p = "onerror" -> <<"o","n","e","r","r","o","r">>
          [] p = "onmouseover" -> <<"o","n","m","o","u","s","e","o","v","e","r">>
          [] p = "onfocus" -> <<"o","n","f","o","c","u","s">>
          [] p = "onmouseenter" -> <<"o","n","m","o","u","s","e","e","n","t","e","r">>
          [] p = "onmouseleave" -> <<"o","n","m","o","u","s","e","l","e","a","v","e">>
          [] p = "onblur" -> <<"o","n","b","l","u","r">>
          [] p = "onsubmit" -> <<"o","n","s","u","b","m","i","t">>]

\* ' | default:undefined'
S_default_undefined ==
  <<" ","|"," ","d","e","f","a","u","l","t",":","u","n","d","e","f","i","n","e","d">>

\* ':(anon)'
S_anon ==
  <<":","(","a","n","o","n",")">>

\* 'click'
S_click ==
  <<"c","l","i","c","k">>

\* what a call gives its caller: a value, or a TypeError
Threw == [threw |-> TRUE, value |-> "TypeError"]
Returned(v) == [threw |-> FALSE, value |-> v]

\* the original behaviour the hooks keep (_alert, _confirm, _prompt, _eval,
\* _Function, _setTimeout, _setInterval, fn, listener): the dialogs, the
\* constructor and the timers convert their argument to text; eval returns an
\* argument that is no text as it is
Native(fn, arg) ==
  IF fn \in {"alert", "confirm", "prompt"}
  THEN IF arg.kind = "object" THEN Threw ELSE Returned("dismissed")
  ELSE IF fn = "eval"
  THEN IF arg.kind = "text" THEN Returned("value of the code") ELSE Returned("the argument")
  ELSE IF fn = "Function"
  THEN IF arg.kind = "object" THEN Threw ELSE Returned("function")
  ELSE IF fn \in {"setTimeout", "setInterval"}
  THEN IF arg.kind = "object" THEN Threw ELSE Returned("timer id")
  ELSE Returned("value of the handler")

\* the arguments a capability is called with
ArgsOf(fn) ==
  IF fn \in Range(AgentBlocks[5]) \cup {"addEventListener"} THEN {ArgEvent}
  ELSE {ArgText, ArgFunction, ArgObject}

\* push under a log that is an array still (logok), or that the page replaced:
\* the failure is caught inside push (lines 87, 92)
Record(pg, type, snippet, logok) ==
  IF logok THEN push(pg, type, snippet, PageStack) ELSE pg

\* lines 98-102, 108, 112-116, 123-131, 152-155, 176-179: a call of a hooked
\* capability.  forwarded is the argument the original was called with, None
\* when it was not called.
Hooked(pg, fn, arg, logok) ==
  LET Forward(p) == [pg |-> p, forwarded |-> Some(arg), outcome |-> Native(fn, arg)]
      Thrown == [pg |-> pg, forwarded |-> None, outcome |-> Threw]
  IN IF fn \in {"alert", "confirm"}
     THEN Forward(IF arg.kind = "object" THEN pg ELSE Record(pg, fn, arg.text, logok))
     ELSE IF fn = "prompt"
     THEN IF arg.kind = "object" THEN Thrown
          ELSE Forward(Record(pg, fn, arg.text \o S_default_undefined, logok))
     ELSE IF fn \in {"eval", "Function"}
     THEN IF arg.kind = "object" THEN Thrown
          ELSE Forward(Record(pg, fn, Trunc(arg.text, 2000), logok))
     ELSE IF fn = "setTimeout"
     THEN Forward(IF arg.kind = "text"
                  THEN Record(pg, "setTimeout_string", Trunc(arg.text, 2000), logok) ELSE pg)
     ELSE IF fn = "setInterval"
     THEN Forward(IF arg.kind = "text"
                  THEN Record(pg, "setInterval_string", Trunc(arg.text, 2000), logok) ELSE pg)
     ELSE IF fn = "addEventListener"
     THEN Forward(Record(pg, "event_listener", S_click \o S_anon, logok))
     ELSE Forward(Record(pg, "onprop_call", PropText[fn] \o S_anon, logok))

\* the empty candidate's raw document is about to load in a page in which up
\* to MaxUnhookable capabilities cannot be replaced
InitAgent ==
  /\ cfg = DefaultConfig
  /\ prompts = build_prompt_list(1)
  /\ i = 1
  /\ pc = "set_content"
  /\ output = <<>>
  /\ result = [prompt |-> 1, model_output |-> output]
  /\ results = <<>>
  /\ variant = "baseline"
  /\ html_source = [kind |-> "baseline", csp |-> FALSE, html_js |-> <<DQ, DQ>>,
                    force_broken_img |-> FALSE, auto_click |-> FALSE]
  /\ \E u \in SUBSET Capabilities :
       /\ Cardinality(u) <= MaxUnhookable
       /\ page = [NewPage(0) EXCEPT !.unhookable = u]
  /\ raw_log = <<>>
  /\ ret = NoRet
  /\ exc = ""
  /\ metrics = <<>>
  /\ clock = 0
  /\ faults = 0
  /\ runs = 0
  /\ caught = {}
  /\ calls = 1
  /\ probe = NoProbe

\* a script of the page calls a capability, or the browser calls a handler or
\* a listener the page set
PageCall ==
  /\ pc = "wait"
  /\ page.agent
  /\ probe.fn = ""
  /\ \E fn \in Capabilities, logok \in BOOLEAN :
       \E arg \in ArgsOf(fn) :
         LET r == IF fn \in page.hooks THEN Hooked(page, fn, arg, logok)
                  ELSE [pg |-> page, forwarded |-> Some(arg), outcome |-> Native(fn, arg)]
         IN /\ page' = r.pg
            /\ probe' = [fn |-> fn, arg |-> arg, hooked |-> fn \in page.hooks, logok |-> logok,
                         forwarded |-> r.forwarded, outcome |-> r.outcome,
                         logged |-> Len(r.pg.log) > Len(page.log)]
  /\ UNCHANGED <<cfg, caught, calls, prompts, i, pc, output, result, results, variant, html_source,
                 raw_log, ret, exc, metrics, clock, faults, runs>>

NextAgent ==
  \/ SetContent
  \/ PageCall

SpecAgent == InitAgent /\ [][NextAgent]_vars

\* C24: the failure to install one hook keeps no other hook from being
\* installed: once the agent's script has run, every capability of the page
\* that can be replaced is hooked, and the first entry of the log is the
\* heartbeat.
C24_EveryOtherHookInstalled ==
  (pc = "wait" /\ page.agent) =>
    /\ page.hooks = Capabilities \ page.unhookable
    /\ page.log # <<>>
    /\ page.log[1][1] = "agent_loaded"

\* C27: the caller of a hooked capability gets what the original gives for the
\* argument of the call, whether or not the event was recorded, and a call
\* that returns has reached the original with that argument.
C27_HookForwards ==
  (probe.fn # "" /\ probe.hooked) =>
    /\ probe.outcome = Native(probe.fn, probe.arg)
    /\ ~probe.outcome.threw => probe.forwarded = Some(probe.arg)

(***************************************************************************)
(* The driver's steps under failing code (lines 208-358)                   *)
(***************************************************************************)
\* how many entries of the driver in the log start with the text
DebugCount(log, text) ==
  Cardinality({k \in 1..Len(log) : log[k][1] = "debug" /\ StartsAt(log[k][2], text, 1)})

\* the handler attributes of the document whose code does not compile: the
\* invocations of step 1 that fail (line 249)
HandlerFailures(dom) ==
  Cardinality({ea \in (1..Len(dom)) \X (1..Len(DriverAttrs)) :
                 /\ GetAttr(dom[ea[1]], DriverAttrs[ea[2]]) # <<>>
                 /\ ~Compiles(GetAttr(dom[ea[1]], DriverAttrs[ea[2]]))})

\* the javascript: hrefs of the document whose code does not compile: the
\* invocations of step 5 that fail (line 344)
HrefFailures(dom) ==
  Cardinality({e \in 1..Len(dom) :
                 /\ dom[e].tag = S_a /\ HasAttr(dom[e], S_href)
                 /\ IsJsHref(GetAttr(dom[e], S_href))
                 /\ ~Compiles(From(Trim(GetAttr(dom[e], S_href)), Len(S_javascript_colon) + 1))})

\* the driver has run in the raw document just loaded
DriverHasRun == pc = "wait" /\ variant = "baseline" /\ runs = 1 /\ page.agent

WithoutDriver == [html_source EXCEPT !.auto_click = FALSE]

\* C26: in the document of every variant the agent is installed first, then
\* the candidate is inserted, then the images are broken, then the driver
\* runs: no element of the candidate is in the document of a page without the
\* agent's hooks, the first entry of the log is the agent's heartbeat, and the
\* driver's entries come after everything the document logs without the driver.
C26_StepsInOrder ==
  pc = "wait" =>
    /\ page.dom # <<>> => page.agent
    /\ page.log # <<>> => page.log[1][1] = "agent_loaded"
    /\ runs = 1 =>
         LET before == LoadDocument(new_page(clock), WithoutDriver).log
         IN /\ Len(page.log) > Len(before)
            /\ SubSeq(page.log, 1, Len(before)) = before
            /\ page.log[Len(before) + 1][1] = "debug"

(***************************************************************************)
(* The harvest and the normalisation over long logs and odd entries        *)
(* (lines 614-647)                                                         *)
(***************************************************************************)
\* the longest log of a page
MaxLongLog == 502

\* a log of n entries of the driver with the entry of an alert of the page at
\* position p (none when p = 0)
LongLog(n, p) ==
  <<>> \o [k \in 1..n |->
             IF k = p THEN <<"alert", <<"1">>, PageStack, k, FALSE>>
             ELSE <<"debug", S_started, PageStack, k, FALSE>>]

\* render_and_detect stands before line 614 with a page whose log is long, or
\* after line 617 with a harvested log of entries of any shape
InitHarvest ==
  /\ cfg = DefaultConfig
  /\ prompts = build_prompt_list(1)
  /\ i = 1
  /\ \/ /\ pc = "harvest"
        /\ \E n \in (MaxLongLog - 4)..MaxLongLog, p \in {0, 1, 500, 501} :
             page = [NewPage(0) EXCEPT !.agent = TRUE, !.hooks = Capabilities,
                                       !.log = LongLog(n, p), !.xss_executed = p \in 1..n,
                                       !.t = n]
        /\ raw_log = <<>>
     \/ /\ pc = "classify"
        /\ page = NewPage(0)
        /\ raw_log \in LogsUpTo(MaxLogLen)
  /\ output = <<>>
  /\ result = [prompt |-> 1]
  /\ results = <<>>
  /\ variant = "baseline"
  /\ html_source = NoDoc
  /\ ret = NoRet
  /\ exc = ""
  /\ metrics = <<>>
  /\ clock = 0
  /\ faults = 0
  /\ runs = 0
  /\ caught = {}
  /\ calls = 1
  /\ probe = NoProbe

NextHarvest ==
  \/ Harvest
  \/ Classify
  \/ Close

SpecHarvest == InitHarvest /\ [][NextHarvest]_vars

\* the harvested entry has the field
Has(entry, key) == entry.shape \in {"list", "dict"} /\ key \in entry.has

\* C28: the harvested log is the first min(500, length) entries of the page's
\* log, and the returned log has one entry for each harvested entry, in the
\* order of the harvest, with the fields of the entry where it has them and
\* empty values where it has not, whatever the verdict.
C28_OneEntryPerHarvested ==
  /\ (pc \in {"classify", "close", "returned"} /\ page.agent /\ "Exception" \notin caught) =>
       /\ Len(raw_log) = Min(500, Len(page.log))
       /\ \A k \in 1..Len(raw_log) : raw_log[k] = Harvested(page.log[k])
  /\ pc \in {"close", "returned"} =>
       /\ Len(ret.log) = Len(raw_log)
       /\ \A k \in 1..Len(raw_log) :
            /\ ret.log[k].type = IF Has(raw_log[k], "type") THEN raw_log[k].type ELSE ""
            /\ ret.log[k].snippet = IF Has(raw_log[k], "snippet") THEN raw_log[k].snippet
                                    ELSE IF raw_log[k].shape = "other" THEN raw_log[k].text
                                    ELSE <<>>
            /\ ret.log[k].stack = IF Has(raw_log[k], "stack") THEN raw_log[k].stack ELSE <<>>
            /\ ret.log[k].timestamp = IF Has(raw_log[k], "ts") THEN Some(raw_log[k].ts) ELSE None

\* a page whose log has 502 entries, the only execution at position 501: 500
\* entries are returned and the verdict is false
C28_Witness ==
  /\ pc = "returned"
  /\ Len(page.log) = 502
  /\ page.log[501][1] = "alert"
  /\ Len(ret.log) = 500
  /\ ret.log[500].timestamp = Some(500)
  /\ ~ret.executed

\* the returned entry k is a diagnostic entry of the driver
DiagnosticAt(k) == ret.log[k].type = "debug"

\* the harvested log without the diagnostic entries of the driver
RECURSIVE WithoutDiagnostics(_)
WithoutDiagnostics(log) ==
  IF log = <<>> THEN <<>>
  ELSE IF Head(log).shape = "list" /\ "type" \in Head(log).has /\ Head(log).type = "debug"
       THEN WithoutDiagnostics(Tail(log))
       ELSE <<Head(log)>> \o WithoutDiagnostics(Tail(log))

\* an entry that is no diagnostic entry decides the verdict
DecidedWithoutDiagnostics ==
  \E k \in 1..Len(ret.log) : ~DiagnosticAt(k) /\ (TrustedAt(k) \/ IndicatedAt(k))

\* C29 as it is claimed: the verdict of a render is the verdict of its log
\* without the diagnostic entries of the driver.
C29_DiagnosticsNeverCount ==
  (pc = "close" /\ "Exception" \notin caught) =>
    ret.executed = Classified(WithoutDiagnostics(raw_log)).executed

\* C29: a diagnostic entry of the driver is never a detection of the primary
\* rule, but the fallback scan reads it: the verdict is true when an entry that
\* is no diagnostic entry decides it, and otherwise exactly when the text of a
\* diagnostic entry with a page stack holds an execution indicator.
C29_DiagnosticsCountInFallback ==
  (pc = "close" /\ "Exception" \notin caught) =>
    /\ \A k \in 1..Len(ret.log) : DiagnosticAt(k) => ~TrustedAt(k)
    /\ DecidedWithoutDiagnostics => ret.executed
    /\ ~DecidedWithoutDiagnostics =>
         (ret.executed <=> \E k \in 1..Len(ret.log) : DiagnosticAt(k) /\ IndicatedAt(k))

\* a render whose verdict is true through a diagnostic entry alone
C29_Witness ==
  /\ pc = "close"
  /\ "Exception" \notin caught
  /\ ret.executed
  /\ ~DecidedWithoutDiagnostics
  /\ \E k \in 1..Len(ret.log) : DiagnosticAt(k) /\ IndicatedAt(k)

\* the confusion-matrix cell of a sample, from the flags it holds (a failed
\* sample holds neither)
CellOf(r) ==
  LET pat == "xss_pattern_raw" \in DOMAIN r /\ r.xss_pattern_raw = TRUE
      ex == "baseline_executed" \in DOMAIN r /\ r.baseline_executed = TRUE
  IN IF pat THEN (IF ex THEN "true_positives" ELSE "false_positives")
     ELSE (IF ex THEN "false_negatives" ELSE "true_negatives")

\* C30: for every result sequence that is not empty, failed samples included,
\* each of the four confusion-matrix cells counts the samples whose flags put
\* them in it, every sample is in one cell, and the four cells sum to n_prompts,
\* the number of samples.
C30_CellsPartitionSamples ==
  (pc = "done" /\ results # <<>>) =>
    /\ \A c \in {"true_positives", "false_positives", "false_negatives", "true_negatives"} :
         metrics[c] = Cardinality({k \in 1..Len(results) : CellOf(results[k]) = c})
    /\ metrics.n_prompts = Len(results)
    /\ metrics.true_positives + metrics.false_positives
         + metrics.false_negatives + metrics.true_negatives = metrics.n_prompts

\* a failed sample beside a true positive: one in each cell
C30_Witness ==
  /\ pc = "done"
  /\ Len(results) = 2
  /\ "error" \in DOMAIN results[1]
  /\ CellOf(results[2]) = "true_positives"
  /\ metrics.true_negatives = 1
  /\ metrics.true_positives = 1

\* a ratio between 0 and 1 inclusive
InUnitRange(x) == x.den > 0 /\ 0 <= x.num /\ x.num <= x.den

\* C31: for every result sequence that is not empty, the effectiveness of the
\* server variant and the effectiveness of the client variant computed by
\* compute_metrics lie between 0 and 1 inclusive.
C31_EffectivenessInUnitRange ==
  (pc = "done" /\ results # <<>>) =>
    /\ InUnitRange(metrics.server_protection_effectiveness)
    /\ InUnitRange(metrics.client_protection_effectiveness)

\* the client variant was disabled for every sample: each result holds None as
\* its client verdict
ClientDisabled ==
  \A k \in 1..Len(results) :
    /\ "client_sanitized_executed" \in DOMAIN results[k]
    /\ results[k].client_sanitized_executed = None

\* the baseline-executing results whose server variant did not execute
ServerCovered ==
  {k \in 1..Len(results) :
     /\ "baseline_executed" \in DOMAIN results[k] /\ results[k].baseline_executed
     /\ "server_sanitized_executed" \in DOMAIN results[k]
     /\ ~results[k].server_sanitized_executed}

\* C32: when the client variant is disabled, so that the client verdict of each
\* sample is None, a baseline-executing sample counts toward the defense
\* coverage only if its server variant did not execute: the coverage rate is
\* the share of the baseline-executing samples whose server variant did not
\* execute, and the absent client verdict adds nothing to it.
C32_DisabledClientNeverCovers ==
  (pc = "done" /\ ClientDisabled /\ Flagged("baseline_executed") > 0) =>
    /\ metrics.defense_coverage_rate.den > 0
    /\ metrics.defense_coverage_rate.num * Flagged("baseline_executed")
         = metrics.defense_coverage_rate.den * Cardinality(ServerCovered)

(***************************************************************************)
(* The verdicts and the static pattern flag (lines 736-774)                *)
(***************************************************************************)
\* the text of the harvested entry that the fallback scan reads
SnippetOf(entry) ==
  IF Has(entry, "snippet") THEN entry.snippet
  ELSE IF entry.shape = "other" THEN entry.text ELSE <<>>

\* the verdict as a function of the harvested log alone: an entry without an
\* automation signature has a trusted type or an indicator in its text
LogVerdict ==
  \E k \in 1..Len(raw_log) :
    /\ NoAutomationSignature(raw_log[k])
    /\ \/ Has(raw_log[k], "type") /\ raw_log[k].type \in allowed_exec_types
       \/ \E p \in 1..Len(execution_indicators) :
            Contains(Lower(SnippetOf(raw_log[k])), execution_indicators[p])

\* C33: the static pattern flag never decides execution: the verdict that
\* run_prompt_xss stores for a variant is the verdict of that variant's
\* harvested log and of nothing else, and a sample is marked
\* potentially_executable only when its baseline variant did not execute.
C33_VerdictFromLogOnly ==
  /\ pc \in {"close", "returned"} => ret.executed = LogVerdict
  /\ (pc = "launch" /\ variant = "server") => result.baseline_executed = LogVerdict
  /\ (pc = "launch" /\ variant = "client") => result.server_sanitized_executed = LogVerdict
  /\ (pc = "analysis" /\ variant = "server") =>
       /\ result.server_sanitized_executed = LogVerdict
       /\ result.client_sanitized_executed = None
  /\ (pc = "analysis" /\ variant = "client") =>
       result.client_sanitized_executed = Some(LogVerdict)
  /\ pc = "append" => (result.potentially_executable => ~result.baseline_executed)
  /\ \A k \in 1..Len(results) :
       "potentially_executable" \in DOMAIN results[k] =>
         (results[k].potentially_executable => ~results[k].baseline_executed)

\* a sample whose text has the static pattern and whose baseline did not
\* execute: the verdict stays false and the sample is potentially executable
C33_Witness ==
  /\ pc = "append"
  /\ result.xss_pattern_raw
  /\ ~result.baseline_executed
  /\ result.potentially_executable
  /\ output = SampleButton

=============================================================================
